---- MODULE Spec2Model ----
(***************************************************************************)
(* termflowy: the document tree of src/src/tree.rs.                        *)
(*                                                                         *)
(* Nodes are heap objects (Rc<RefCell<Node>>, the type Link).  The heap is *)
(* a sequence of Node records and a Link is an index into it; NoLink is    *)
(* Option::None.  The records of a deleted subtree are cleared once        *)
(* nothing the Tree, the clipboard or the undo log holds leads to them; a  *)
(* Link is only a name, and a copy made by get_subtree takes the lowest    *)
(* names nothing live uses.                                                *)
(*                                                                         *)
(* A call that panics sets panicked and ends the run: the process is gone. *)
(* last_op / last_arg / last_result record the last call and what it       *)
(* returned ("ok", "err", "panic"); for delete, last_arg holds the ids it  *)
(* collected for removal (its local ids).                                  *)
(*                                                                         *)
(* Vec indices are 1-based here (0-based in the source); position() yields *)
(* 0 for Option::None.                                                     *)
(*                                                                         *)
(* Spec is the tree driven by the program's own identity source (IdGen,    *)
(* which counts up from 1); SpecAnyGen lets the source start at 0 as well. *)
(* Tree itself never writes a node's content: it stays empty but in        *)
(* SpecRender, SpecContent and SpecEditor.                                 *)
(* Tree::get_subtree is todo!() and is the only producer of a Subtree, so  *)
(* no call of Tree::insert_subtree can be made on this code.               *)
(*                                                                         *)
(* SpecSubtree puts in its place get_subtree as the specification          *)
(* describes it (a detached, self-contained copy of the active node and    *)
(* its descendants) and adds what command_y and command_p_shift_p of       *)
(* src/src/handlers.rs do with a Subtree: the clipboard, and               *)
(* Tree::insert_subtree of a clone of it.  A Subtree is a struct of Links  *)
(* and its derived Clone copies the Links, not the nodes.  A run is        *)
(* followed as long as the document is a tree (every Link in at most one   *)
(* child list, no child list leading back to its own node); past that the  *)
(* traversals of the source visit a node twice or do not end.              *)
(*                                                                         *)
(* The grid of src/src/raster.rs is the record raster: its bounds max, its *)
(* rows map (a row holds the cells pushed to it so far) and the position   *)
(* current of the last push.  A Browser is a position over it; it is moved *)
(* by value, so a motion that returns Err leaves the Browser it was called *)
(* on as it was.  For a motion last_arg holds the start position and the   *)
(* arguments and last_result "ok", "panic" or the text of the Err.         *)
(* SpecLinearMove applies linear_move to positions and offsets drawn from  *)
(* the bounds; SpecBrowser pushes cells to a Raster and moves a Browser    *)
(* over it; SpecCursor pushes cells, places a command-mode cursor on a     *)
(* browsable cell and moves it with command_jk of src/src/handlers.rs.     *)
(*                                                                         *)
(* SpecRender writes a document (create_sibling, indent, texts written     *)
(* through get_mut_active_content) and renders it with tree_render of      *)
(* src/src/render.rs on a TestWindow, of which only the cursor matters to  *)
(* the grid.  A render that panics ends the run; one that does not         *)
(* terminate is not a step.  SpecContent makes bullets, writes to them and *)
(* moves them with indent and unindent.                                    *)
(*                                                                         *)
(* A String is the sequence of its chars, a char its Unicode scalar value. *)
(* Its length, the indices of its slices and the offsets of Text cells     *)
(* count bytes of its UTF-8 encoding, as in the source; a window shows one *)
(* cell per char.                                                          *)
(*                                                                         *)
(* SpecScan and SpecSplit run a loop one iteration a step, its locals in   *)
(* frame: the loop of Browser::go_while over a Raster, and the loop of     *)
(* split_every_n over a string and a width.  The steps of a loop in        *)
(* progress are weakly fair: the program is sequential and keeps running.  *)
(*                                                                         *)
(* SpecEditor is the Editor of src/src/editor.rs from Editor::new on, one  *)
(* step per key press: the insert handlers and the command handlers of     *)
(* src/src/handlers.rs on the Tree, the Raster of the last render, the     *)
(* Cursor and the sticky key.  The handlers call tree_render for the       *)
(* Tree's active node on the Editor's window, Browser::go_wrap as count    *)
(* cells of the grid's linear addressing, Tree::indent as the last child   *)
(* and NodeIterator::next_sibling for the sibling below; Tree::get_subtree *)
(* is todo!(), so the clipboard and the undo log stay empty.  The arrow    *)
(* keys write a text of thirty characters, which no window within the      *)
(* bounds has room for.                                                    *)
(***************************************************************************)
EXTENDS Integers, Sequences, FiniteSets, TLC

\* ---- bounds -----------------------------------------------------------
MaxId == 4           \* the identity source is asked for ids up to MaxId
MaxGenFirst == 1     \* SpecAnyGen: the source starts anywhere in 0..MaxGenFirst
MaxHeap == 7         \* SpecSubtree: the heap stays within MaxHeap Links
MaxBuildId == 2      \* SpecSubtree: create_sibling is called for ids up to MaxBuildId
MaxRows == 2          \* SpecBrowser, SpecCursor: rasters of up to MaxRows rows
MaxCols == 2          \* SpecBrowser, SpecCursor: ... and up to MaxCols columns
MaxCount == 2         \* SpecBrowser: the count handed to go_while_or_count / go_until_count
MaxOffset == 4        \* SpecLinearMove: offsets -MaxOffset..MaxOffset
MaxWinRows == 4       \* SpecRender: windows of up to MaxWinRows rows
MaxWinCols == 5       \* SpecRender: ... and up to MaxWinCols columns
MaxContent == 3       \* SpecRender: characters typed into one node
MaxLen == 3           \* SpecSplit: strings of up to MaxLen chars
MaxWidth == 4         \* SpecSplit: widths 0..MaxWidth

\* ---- program constants --------------------------------------------------
RootId == 0          \* Node::new_link(0, None) in Tree::new; Node::is_root
GenFirst == 1        \* IdGen { current: Cell::new(1) } in Editor::new
NoLink == 0          \* Option<Link>::None

Above == "Above"
Below == "Below"
Dir == {Above, Below}

VARIABLES
    heap,         \* Seq of Node: every Link ever allocated
    active,       \* Tree.active
    root,         \* Tree.root
    id_table,     \* Tree.id_table : id -> Link
    gen_current,  \* IdGen.current
    panicked,     \* the process aborted
    clipboard,    \* Editor.clipboard : Option<Clipboard::Tree(Subtree)>
    history,      \* the undo log command_d pushes to and command_u pops from
    raster,       \* Editor.raster : Raster
    browser,      \* the position of a Browser over raster; NoPoint: there is none
    cursor,       \* Editor.cursor : Cursor (a CommandState or an InsertState)
    frame,        \* the locals of a loop in progress; NoFrame: none
    sticky_key,   \* Editor.sticky_key : Option<String>; NoKey: None
    last_op, last_arg, last_result

vars == <<heap, active, root, id_table, gen_current, panicked,
          clipboard, history, raster, browser, cursor,
          frame,
          sticky_key,
          last_op, last_arg, last_result>>

tree_vars == <<heap, active, root, id_table, gen_current, clipboard, history>>

\* ---- Node ---------------------------------------------------------------
Node(id, parent) ==
    [id |-> id, parent |-> parent, children |-> <<>>, content |-> <<>>]

is_root(h, n) == h[n].id = RootId

\* Iterator::position(|l| l.borrow().id == id): first match, 0 for None
position(h, children, id) ==
    IF \E i \in 1..Len(children) : h[children[i]].id = id
    THEN CHOOSE i \in 1..Len(children) :
            /\ h[children[i]].id = id
            /\ \A j \in 1..(i-1) : h[children[j]].id # id
    ELSE 0

\* Vec::insert(index, x), index 1-based
VecInsert(v, index, x) ==
    SubSeq(v, 1, index - 1) \o <<x>> \o SubSeq(v, index, Len(v))

\* Vec::retain(|l| l.borrow().id != child_id)
RECURSIVE retain_other_ids(_, _, _)
retain_other_ids(h, v, child_id) ==
    IF v = <<>> THEN <<>>
    ELSE LET rest == retain_other_ids(h, Tail(v), child_id)
         IN IF h[Head(v)].id # child_id THEN <<Head(v)>> \o rest ELSE rest

insert_child_relative_same_index(h, self, relative_id, dir, child) ==
    LET pos == position(h, h[self].children, relative_id)
    IN IF pos = 0 THEN [ok |-> FALSE, heap |-> h]
       ELSE [ok |-> TRUE,
             heap |-> [h EXCEPT ![self].children = VecInsert(@, pos, child)]]

insert_child_relative(h, self, relative_id, dir, child) ==
    LET pos == position(h, h[self].children, relative_id)
    IN IF pos = 0 THEN [ok |-> FALSE, heap |-> h]
       ELSE LET index == IF dir = Below THEN pos + 1 ELSE pos
            IN [ok |-> TRUE,
                heap |-> [h EXCEPT ![self].children = VecInsert(@, index, child)]]

insert_child_last(h, self, child) ==
    [h EXCEPT ![self].children = Append(@, child)]

insert_child_first_appends(h, self, child) ==
    [h EXCEPT ![self].children = Append(@, child)]

insert_child_first(h, self, child) ==
    [h EXCEPT ![self].children = VecInsert(@, 1, child)]

remove_child_keeps(h, self, child_id) == h

remove_child(h, self, child_id) ==
    [h EXCEPT ![self].children =
        retain_other_ids(h, @, child_id)]

get_sibling(h, self, dir) ==
    LET parent == h[self].parent
    IN IF parent = NoLink THEN NoLink
       ELSE LET pos == position(h, h[parent].children, h[self].id)
            IN IF pos = 0 THEN NoLink
               ELSE IF dir = Above /\ pos = 1 THEN NoLink
               ELSE LET index == IF dir = Below THEN pos + 1 ELSE pos - 1
                    IN IF index <= Len(h[parent].children)
                       THEN h[parent].children[index]
                       ELSE NoLink

\* ---- traversal ----------------------------------------------------------
Entry(n, visited) == [node |-> n, visited |-> visited]

Reverse_keeps_order(s) == s

Reverse(s) == [i \in 1..Len(s) |-> s[Len(s) + 1 - i]]

children_iter(h, n) == [i \in 1..Len(h[n].children) |-> Entry(h[n].children[i], FALSE)]

\* TreeTraversalIterator::post_order, run until the iterator is exhausted
RECURSIVE post_order_run(_, _, _)
post_order_run(h, deque, out) ==
    IF deque = <<>> THEN out
    ELSE LET e    == deque[Len(deque)]
             rest == SubSeq(deque, 1, Len(deque) - 1)
         IN IF e.visited
            THEN post_order_run(h, rest, Append(out, e.node))
            ELSE post_order_run(h,
                    rest \o <<Entry(e.node, TRUE)>> \o Reverse(children_iter(h, e.node)),
                    out)

post_order_root_only(h, n) == <<n>>

post_order(h, n) == post_order_run(h, <<Entry(n, FALSE)>>, <<>>)

RECURSIVE level_run_pop_back(_, _, _)
level_run_pop_back(h, deque, out) ==
    IF deque = <<>> THEN out
    ELSE LET e    == deque[Len(deque)]
             rest == SubSeq(deque, 1, Len(deque) - 1)
         IN IF e.visited
            THEN level_run_pop_back(h, rest, Append(out, e.node))
            ELSE level_run_pop_back(h,
                    rest \o <<Entry(e.node, TRUE)>> \o children_iter(h, e.node),
                    out)

\* TreeTraversalIterator::level, run until the iterator is exhausted
RECURSIVE level_run(_, _, _)
level_run(h, deque, out) ==
    IF deque = <<>> THEN out
    ELSE LET e    == Head(deque)
             rest == Tail(deque)
         IN IF e.visited
            THEN level_run(h, rest, Append(out, e.node))
            ELSE level_run(h,
                    rest \o <<Entry(e.node, TRUE)>> \o children_iter(h, e.node),
                    out)

\* NodeIterator::traverse(TraversalType::Level)
level(h, n) == level_run(h, <<Entry(n, FALSE)>>, <<>>)

\* ---- id table -----------------------------------------------------------
TableInsert(t, id, link) ==
    [i \in (DOMAIN t) \cup {id} |-> IF i = id THEN link ELSE t[i]]

TableRemove(t, id) == [i \in (DOMAIN t) \ {id} |-> t[i]]

register_in_table(h, t, node) == TableInsert(t, h[node].id, node)

get_node(t, id) == IF id \in DOMAIN t THEN t[id] ELSE NoLink

\* the loop of Tree::delete over the collected ids; stops at the first
\* id that is not in the table (expect)
RECURSIVE remove_ids(_, _)
remove_ids(t, ids) ==
    IF ids = <<>> THEN [panic |-> FALSE, id_table |-> t]
    ELSE IF Head(ids) \notin DOMAIN t THEN [panic |-> TRUE, id_table |-> t]
    ELSE remove_ids(TableRemove(t, Head(ids)), Tail(ids))

\* ---- Tree ---------------------------------------------------------------
Tree_new(first_id) ==
    LET h0 == <<Node(RootId, NoLink), Node(first_id, 1)>>
        t0 == TableInsert(<<>>, RootId, 1)
        t1 == TableInsert(t0, first_id, 2)
    IN [heap |-> insert_child_last(h0, 1, 2), id_table |-> t1,
        active |-> 2, root |-> 1, gen_current |-> first_id + 1]

insert_node(h, t, act, node, dir) ==
    LET parent == h[act].parent
    IN IF parent = NoLink
       THEN [panic |-> TRUE, heap |-> h, id_table |-> t]
       ELSE LET h1 == [h EXCEPT ![node].parent = parent]
                r  == insert_child_relative(h1, parent, h1[act].id, dir, node)
            IN IF ~r.ok
               THEN [panic |-> TRUE, heap |-> h1, id_table |-> t]
               ELSE [panic |-> FALSE, heap |-> r.heap,
                     id_table |-> register_in_table(r.heap, t, node)]

\* struct Subtree: its root (the fields parent and above_sibling are never
\* read); NoSubtree is Option::None of the clipboard
Subtree(r) == [root |-> r]

NoSubtree == Subtree(NoLink)

\* the Links a clipboard and an undo log keep alive
Held(clip, hist) ==
    ({clip.root} \cup {hist[i].tree.root : i \in {k \in 1..Len(hist) :
                                                    hist[k].kind = "Tree"}}) \ {NoLink}

\* ---- raster.rs ------------------------------------------------------------
\* Point = (i32, i32), here <<row, col>>, 0-based as in the source; NoPoint
\* is Option<Point>::None
NoPoint == <<>>

\* enum PixelState.  Placeholder is the variant render.rs and handlers.rs
\* use for a node without content; NoPixel is Option<PixelState>::None
Empty == [kind |-> "Empty"]

Filler(id) == [kind |-> "Filler", id |-> id]

Text(id, offset) == [kind |-> "Text", id |-> id, offset |-> offset]

Bullet(id) == [kind |-> "Bullet", id |-> id]

Placeholder(id) == [kind |-> "Placeholder", id |-> id]

NoPixel == [kind |-> "None"]

is_text(state) == state.kind = "Text"

\* PixelState::is_browsable as the specification defines it: "browsable
\* text, i.e. Text/Placeholder, as opposed to Empty/Filler/Bullet"
is_browsable(state) == state.kind \in {"Text", "Placeholder"}

Left == "Left"
Right == "Right"
Up == "Up"
Down == "Down"
Direction == {Left, Right, Up, Down}

\* i32 `/` and `%`: the quotient is truncated toward zero
Abs(a) == IF a < 0 THEN 0 - a ELSE a

trunc_div(a, b) ==
    IF (a < 0) = (b < 0) THEN Abs(a) \div Abs(b) ELSE 0 - (Abs(a) \div Abs(b))

trunc_rem(a, b) == a - b * trunc_div(a, b)

div_euclid_truncating(a, rhs) == trunc_div(a, rhs)

\* i32::div_euclid and i32::rem_euclid
div_euclid(a, rhs) ==
    LET q == trunc_div(a, rhs)
    IN IF trunc_rem(a, rhs) < 0
       THEN (IF rhs > 0 THEN q - 1 ELSE q + 1)
       ELSE q

rem_euclid(a, rhs) ==
    LET r == trunc_rem(a, rhs)
    IN IF r < 0 THEN r + Abs(rhs) ELSE r

linear_move_wrapping(pos, max, offset) ==
    LET x == pos[2] + offset
    IN <<rem_euclid(pos[1] + div_euclid(x, max[2]), max[1]), rem_euclid(x, max[2])>>

linear_move(pos, max, offset) ==
    LET x   == pos[2] + offset
        row == pos[1] + div_euclid(x, max[2])
        col == rem_euclid(x, max[2])
    IN IF 0 <= row /\ row < max[1] THEN <<row, col>> ELSE NoPoint

is_in_bounds(pos, max) ==
    0 <= pos[1] /\ pos[1] < max[1] /\ 0 <= pos[2] /\ pos[2] < max[2]

add_points(a, b) == <<a[1] + b[1], a[2] + b[2]>>

\* Raster::new: max.0 + 1 rows, none of them holding a cell yet
Raster_new(max) ==
    [map |-> [i \in 1..(max[1] + 1) |-> <<>>], max |-> max, current |-> <<0, 0 - 1>>]

\* the raster of a state in which no Raster has been made
NoRaster == Raster_new(<<0, 0>>)

\* Raster::push; panic: "cannot add to full raster"
push(r, state) ==
    LET c == linear_move(r.current, r.max, 1)
    IN IF c = NoPoint
       THEN [panic |-> TRUE, raster |-> r]
       ELSE [panic |-> FALSE,
             raster |-> [r EXCEPT !.current = c,
                                  !.map[c[1] + 1] = Append(@, state)]]

RECURSIVE push_multiple(_, _, _)
push_multiple(r, state, count) ==
    IF count <= 0 THEN [panic |-> FALSE, raster |-> r]
    ELSE LET p == push(r, state)
         IN IF p.panic THEN p ELSE push_multiple(p.raster, state, count - 1)

\* Raster::get: `pos.0 as usize` of a negative i32 is past every Vec
get(r, pos) ==
    IF /\ 0 <= pos[1] /\ pos[1] < Len(r.map)
       /\ 0 <= pos[2] /\ pos[2] < Len(r.map[pos[1] + 1])
    THEN r.map[pos[1] + 1][pos[2] + 1]
    ELSE NoPixel

\* what a Browser call returns: "ok" with the Browser's position, or the
\* text of the Err
Moved(pos) == [result |-> "ok", pos |-> pos]

Failed(msg, pos) == [result |-> msg, pos |-> pos]

ErrGoWhileDir == "go_while only defined for Left and Right directions"
ErrPastBounds == "could not browse past bounds"
ErrHitBounds == "hit bounds"
ErrNoText == "no text on target line"

browser_unchecked(r, pos) == Moved(pos)

\* Raster::browser
browser_at(r, pos) ==
    IF is_in_bounds(pos, r.max) THEN Moved(pos)
    ELSE Failed("cannot get browser for pixel which is out of bounds", NoPoint)

\* the predicates the callers pass
Predicates == {"is_text", "not_text", "is_browsable", "not_browsable", "always"}

predicate(pred, state) ==
    CASE pred = "is_text"       -> is_text(state)
      [] pred = "not_text"      -> ~is_text(state)
      [] pred = "is_browsable"  -> is_browsable(state)
      [] pred = "not_browsable" -> ~is_browsable(state)
      [] pred = "always"        -> TRUE

\* an FnMut closure handed to go_while: the caller's predicate as it is, or
\* wrapped with the count of go_while_or_count / go_until_count
FnMut(kind, pred, count) == [kind |-> kind, pred |-> pred, count |-> count]

\* one call of the closure: what it returns and what it has become
call(f, state) ==
    CASE f.kind = "plain" ->
            [value |-> predicate(f.pred, state), closure |-> f]
      [] f.kind = "or_count" ->
            [value |-> f.count - 1 > 0 /\ predicate(f.pred, state),
             closure |-> [f EXCEPT !.count = @ - 1]]
      [] f.kind = "until_count" ->
            LET c == IF predicate(f.pred, state) THEN f.count - 1 ELSE f.count
            IN [value |-> c > 0, closure |-> [f EXCEPT !.count = c]]

RECURSIVE go_while_tests_before_step(_, _, _, _)
go_while_tests_before_step(r, pos, offset, f) ==
    LET state == get(r, pos)
        c     == IF state = NoPixel THEN [value |-> TRUE, closure |-> f]
                 ELSE call(f, state)
        next  == linear_move(pos, r.max, offset)
    IN IF ~c.value THEN Moved(pos)
       ELSE IF next = NoPoint THEN Failed(ErrPastBounds, pos)
       ELSE go_while_tests_before_step(r, next, offset, c.closure)

\* the loop of Browser::go_while
RECURSIVE go_while_loop(_, _, _, _)
go_while_loop(r, pos, offset, f) ==
    LET next == linear_move(pos, r.max, offset)
    IN IF next = NoPoint THEN Failed(ErrPastBounds, pos)
       ELSE LET state == get(r, next)
            IN IF state = NoPixel THEN go_while_loop(r, next, offset, f)
               ELSE LET c == call(f, state)
                    IN IF ~c.value THEN Moved(next)
                       ELSE go_while_loop(r, next, offset, c.closure)

go_while_with_tests_start(r, pos, dir, f) ==
    IF dir \notin {Left, Right} THEN Failed(ErrGoWhileDir, pos)
    ELSE IF get(r, pos) # NoPixel /\ ~call(f, get(r, pos)).value THEN Moved(pos)
    ELSE go_while_loop(r, pos, IF dir = Left THEN 0 - 1 ELSE 1, f)

go_while_with_one_offset(r, pos, dir, f) ==
    IF dir \notin {Left, Right} THEN Failed(ErrGoWhileDir, pos)
    ELSE go_while_loop(r, pos, 1, f)

go_while_with(r, pos, dir, f) ==
    IF dir \notin {Left, Right} THEN Failed(ErrGoWhileDir, pos)
    ELSE go_while_loop(r, pos, IF dir = Left THEN 0 - 1 ELSE 1, f)

\* Browser::go_while with a predicate that keeps no state
go_while(r, pos, dir, pred) == go_while_with(r, pos, dir, FnMut("plain", pred, 0))

go_while_or_count_ignores_count(r, pos, dir, count, pred) ==
    IF count = 0 THEN Moved(pos)
    ELSE go_while(r, pos, dir, pred)

go_while_or_count(r, pos, dir, count, pred) ==
    IF count = 0 THEN Moved(pos)
    ELSE go_while_with(r, pos, dir, FnMut("or_count", pred, count))

go_until_count_no_zero_case(r, pos, dir, count, pred) ==
    go_while_with(r, pos, dir, FnMut("until_count", pred, count))

go_until_count(r, pos, dir, count, pred) ==
    IF count = 0 THEN Moved(pos)
    ELSE go_while_with(r, pos, dir, FnMut("until_count", pred, count))

Delta(dir) ==
    CASE dir = Left  -> <<0, 0 - 1>>
      [] dir = Right -> <<0, 1>>
      [] dir = Up    -> <<0 - 1, 0>>
      [] dir = Down  -> <<1, 0>>

go_no_wrap_wraps(r, pos, dir) ==
    LET new_pos == linear_move(pos, r.max, Delta(dir)[1] * r.max[2] + Delta(dir)[2])
    IN IF new_pos # NoPoint THEN Moved(new_pos) ELSE Failed(ErrHitBounds, pos)

\* Browser::go_no_wrap
go_no_wrap(r, pos, dir) ==
    LET new_pos == add_points(pos, Delta(dir))
    IN IF is_in_bounds(new_pos, r.max) THEN Moved(new_pos)
       ELSE Failed(ErrHitBounds, pos)

\* Browser::state: self.raster.get(self.pos).unwrap()
state_of(r, pos) == get(r, pos)

\* handlers.rs find_left_text(b, col); "panic": Browser::state on a cell
\* nothing was pushed to
find_left_text(r, pos, col) ==
    IF state_of(r, pos) = NoPixel THEN Failed("panic", pos)
    ELSE IF is_browsable(state_of(r, pos)) THEN Moved(pos)
    ELSE LET g == go_while_or_count(r, pos, Left, col, "not_browsable")
         IN IF g.result # "ok" THEN g
            ELSE IF state_of(r, g.pos) = NoPixel THEN Failed("panic", g.pos)
            ELSE IF is_browsable(state_of(r, g.pos)) THEN Moved(g.pos)
            ELSE Failed(ErrNoText, g.pos)

\* ---- editor.rs: Cursor::Command(CommandState { pos, col }) ----------------
CommandState(pos, col) == [pos |-> pos, col |-> col]

NoCursor == CommandState(NoPoint, 0)

\* Cursor::Insert(InsertState { pos, offset })
InsertState(pos, offset) == [pos |-> pos, offset |-> offset]

is_command(cur) == "col" \in DOMAIN cur

new_insert(pos) == InsertState(pos, 0)

\* Editor.sticky_key = None
NoKey == ""

new_command(pos) == CommandState(pos, pos[2])

\* Browser::go_no_wrap(dir, count) as command_jk calls it: count single
\* steps, the first failing step ending the motion
RECURSIVE go_no_wrap_count(_, _, _, _)
go_no_wrap_count(r, pos, dir, count) ==
    IF count <= 0 THEN Moved(pos)
    ELSE LET g == go_no_wrap(r, pos, dir)
         IN IF g.result # "ok" THEN g
            ELSE go_no_wrap_count(r, g.pos, dir, count - 1)

\* handlers.rs command_jk: the new cursor, or the text of the Err, or
\* "panic" (the expect on raster.browser(cursor.pos), the expect on
\* checked_sub, Browser::state).  col and pos.1 are cast to u32 before the
\* subtraction: as_u32(x) is x modulo 2^32, written as its two digits in
\* base 2^16, most significant first (the integers here are 32 bits wide).
\* A difference of 2^31 or more leaves every Raster, as a motion of r.max.1
\* cells to the right does.
command_jk(r, cur, key) ==
    LET as_u32(x) ==
            IF x >= 0 THEN <<x \div 65536, x % 65536>>
            ELSE <<65535 - ((0 - x - 1) \div 65536), 65535 - ((0 - x - 1) % 65536)>>
        direction == IF key = "j" THEN Down ELSE Up
        start == browser_at(r, cur.pos)
        a == go_no_wrap_count(r, cur.pos, direction, 1)
        col  == as_u32(cur.col)
        pos1 == as_u32(cur.pos[2])
        underflow == col[1] < pos1[1] \/ (col[1] = pos1[1] /\ col[2] < pos1[2])
        diff == IF col[2] >= pos1[2] THEN <<col[1] - pos1[1], col[2] - pos1[2]>>
                ELSE <<col[1] - pos1[1] - 1, col[2] + 65536 - pos1[2]>>
        count == IF diff[1] < 32768 THEN diff[1] * 65536 + diff[2] ELSE r.max[2]
        b == go_no_wrap_count(r, a.pos, Right, count)
        f == find_left_text(r, b.pos, cur.pos[2])
    IN IF start.result # "ok" THEN [result |-> "panic", cursor |-> cur]
       ELSE IF a.result # "ok" THEN [result |-> a.result, cursor |-> cur]
       ELSE IF underflow THEN [result |-> "panic", cursor |-> cur]
       ELSE IF b.result # "ok" THEN [result |-> b.result, cursor |-> cur]
       ELSE IF f.result # "ok" THEN [result |-> f.result, cursor |-> cur]
       ELSE [result |-> "ok", cursor |-> new_command(f.pos)]

\* ---- render.rs ------------------------------------------------------------
\* The window is a TestWindow: only its cursor matters to the raster.  A
\* render in progress is [win, raster, result, cursor_pos]: the window's
\* cursor, the Raster being filled, "ok" / "panic" / "hang" (a loop that does
\* not end), and the active node's anchor position once it is known.
Rendering(win, r, result, cursor_pos) ==
    [win |-> win, raster |-> r, result |-> result, cursor_pos |-> cursor_pos]

\* The element of a singleton.  The({e(x) : x \in {v}}) is e(v) with v
\* evaluated once, however often e uses it.
The(S) == CHOOSE x \in S : TRUE

\* ---- String and &str -------------------------------------------------------
\* A string is the sequence of its chars, and a char is its Unicode scalar
\* value ('a' is 97, ' ' is 32, 'é' is 233).  str::len and the indices of a
\* slice, of String::insert_str and of String::remove count bytes of the
\* UTF-8 encoding, not chars.

\* char::len_utf8: the bytes of the char's UTF-8 encoding
len_utf8(c) ==
    IF c < 128 THEN 1
    ELSE IF c < 2048 THEN 2
    ELSE IF c < 65536 THEN 3
    ELSE 4

\* str::len: the length in bytes
str_len(string) ==
    The({ Len(s) + Cardinality({i \in 1..Len(s) : len_utf8(s[i]) >= 2})
                 + Cardinality({i \in 1..Len(s) : len_utf8(s[i]) >= 3})
                 + Cardinality({i \in 1..Len(s) : len_utf8(s[i]) >= 4})
          : s \in {string} })

\* index is not a char boundary of the string (str::is_char_boundary is
\* false: inside a char or past the end)
NoBoundary == 0 - 1

\* the number of chars before byte index, or NoBoundary; in a string of
\* one-byte chars every index up to the length is a boundary
char_index(string, index) ==
    The({ IF str_len(s) = Len(s)
          THEN (IF 0 <= index /\ index <= Len(s) THEN index ELSE NoBoundary)
          ELSE The({ IF K = {} THEN NoBoundary ELSE The(K)
                     : K \in {{k \in 0..Len(s) : str_len(SubSeq(s, 1, k)) = index}} })
          : s \in {string} })

\* &string[start..end], or the panic of a slice that is out of range or
\* cuts a char
Slice(string, start, end) ==
    The({ IF start > end \/ from = NoBoundary \/ to = NoBoundary
          THEN [panic |-> TRUE, slice |-> <<>>]
          ELSE [panic |-> FALSE, slice |-> SubSeq(string, from + 1, to)]
          : from \in {char_index(string, start)}, to \in {char_index(string, end)} })

\* TestWindow::addch: screen[pos.0][pos.1] is written, which panics for a
\* cursor outside the screen (NoPoint); the cursor moves on unless it is on
\* the last cell
win_addch(max, pos) ==
    IF ~is_in_bounds(pos, max) THEN NoPoint
    ELSE IF pos[1] = max[1] - 1 /\ pos[2] = max[2] - 1 THEN pos
    ELSE linear_move(pos, max, 1)

\* TestWindow::addstr of len chars: the cursor after them, or NoPoint when an
\* addch panics
RECURSIVE win_addstr(_, _, _)
win_addstr(max, pos, len) ==
    The({ IF len <= 0 \/ x = NoPoint THEN x
          ELSE win_addstr(max, win_addch(max, x), len - 1)
          : x \in {pos} })

\* win.addch / win.addstr of count cells and raster.push_multiple(state, count)
RECURSIVE put(_, _, _)
put(rs, state, count) ==
    The({ IF count <= 0 \/ x.result # "ok" THEN x
          ELSE The({ IF w = NoPoint \/ p.panic THEN [x EXCEPT !.result = "panic"]
                     ELSE put([x EXCEPT !.win = w, !.raster = p.raster],
                              state, count - 1)
                     : w \in {win_addch(x.raster.max, x.win)},
                       p \in {push(x.raster, state)} })
          : x \in {rs} })

\* raster.push(state) with nothing written to the window
push_state(rs, state) ==
    The({ IF p.panic THEN [rs EXCEPT !.result = "panic"]
          ELSE [rs EXCEPT !.raster = p.raster]
          : p \in {push(rs.raster, state)} })

\* win.addstr(slice) and the inner loop of render_content_slices: the window
\* moves on by one cell per char of the slice, the Raster gets one Text cell
\* per byte (for _ in 0..slice.len())
RECURSIVE put_text(_, _, _, _, _)
put_text(rs, node_id, offset, chars, bytes) ==
    The({ IF bytes <= 0 \/ x.result # "ok" THEN x
          ELSE put_text(IF chars > 0 THEN put(x, Text(node_id, offset), 1)
                        ELSE push_state(x, Text(node_id, offset)),
                        node_id, offset + 1, chars - 1, bytes - 1)
          : x \in {rs} })

\* clear_remaining_line on a window of size max with its cursor on pos: the
\* panic of a negative amount or of an addch, else the cursor after the
\* blanks and their count
clear_remaining_line(max, pos) ==
    LET remaining_line == max[2] - pos[2]
    IN IF remaining_line < 0 THEN [panic |-> TRUE, win |-> pos, count |-> 0]
       ELSE The({ IF w = NoPoint THEN [panic |-> TRUE, win |-> pos, count |-> 0]
                  ELSE [panic |-> FALSE, win |-> w, count |-> remaining_line]
                  : w \in {win_addstr(max, pos, remaining_line)} })

\* clear_remaining, likewise for the rest of the window
clear_remaining(max, pos) ==
    LET remaining == (max[2] - pos[2]) + (max[1] - pos[1] - 1) * max[2]
    IN IF remaining < 0 THEN [panic |-> TRUE, win |-> pos, count |-> 0]
       ELSE The({ IF w = NoPoint THEN [panic |-> TRUE, win |-> pos, count |-> 0]
                  ELSE [panic |-> FALSE, win |-> w, count |-> remaining]
                  : w \in {win_addstr(max, pos, remaining)} })

\* raster.push_multiple(PixelState::Empty, cleared as u32) after one of the
\* two has cleared
push_cleared(rs, cleared) ==
    IF rs.result # "ok" THEN rs
    ELSE IF cleared.panic THEN [rs EXCEPT !.result = "panic"]
    ELSE The({ IF p.panic THEN [rs EXCEPT !.result = "panic", !.win = cleared.win]
               ELSE [rs EXCEPT !.win = cleared.win, !.raster = p.raster]
               : p \in {push_multiple(rs.raster, Empty, cleared.count)} })

\* what split_every_n comes to: the slices, the panic of a slice, or "hang"
\* (a loop that does not end: n = 0)
Split(result, slices) == [result |-> result, slices |-> slices]

\* split_every_n: the loop pushes &string[0..n], &string[n..2n], ... while
\* the end is below string.len(), the rest of the string is the last slice;
\* a slice that panics ends the call
split_every_n(string, n) ==
    The({ IF x = <<>> THEN Split("ok", <<>>)
          ELSE IF n = 0 THEN Split("hang", <<>>)
          ELSE The({ IF \E i \in DOMAIN cut : cut[i].panic THEN Split("panic", <<>>)
                     ELSE Split("ok", [i \in DOMAIN cut |-> cut[i].slice])
                     : cut \in {[i \in 1..((len + n - 1) \div n) |->
                                   Slice(x, (i - 1) * n,
                                         IF i * n < len THEN i * n ELSE len)]} })
          : x \in {string}, len \in {str_len(string)} })

\* Option<usize>::None of render_bullet's insert_offset
NoOffset == 0 - 1

\* `(i32) as usize` on a 64-bit target: x modulo 2^64.  The value is written
\* as its four digits in base 2^16, most significant first (the integers
\* here are 32 bits wide): as_usize(-1) = 2^64 - 1 is
\* <<65535, 65535, 65535, 65535>>.
as_usize(x) ==
    IF x >= 0 THEN <<0, 0, x \div 65536, x % 65536>>
    ELSE <<65535, 65535, 65535 - ((0 - x - 1) \div 65536),
           65535 - ((0 - x - 1) % 65536)>>

\* a usize that is below 2^31, as an integer
usize_fits(u) == u[1] = 0 /\ u[2] = 0 /\ u[3] < 32768

usize_value(u) == u[3] * 65536 + u[4]

\* the text width as render_bullet's callees use it: they compare limit with
\* lengths of pieces of content (n >= len, slice.len() == limit) and divide
\* an index into content by it, so a limit past 2^31 acts as any limit
\* greater than content.len()
limit_of(u, len) == IF usize_fits(u) THEN usize_value(u) ELSE len + 1

\* the Rendering after `before` is written: the window's cursor is the insert
\* cursor when insert_index is in the slice at `offset`; the panic of
\* &slice[0..insert_index - offset] when that cuts a char
insert_cursor(rs, slice, offset, insert_index) ==
    IF offset <= insert_index /\ insert_index < offset + str_len(slice)
    THEN The({ IF k = NoBoundary THEN [rs EXCEPT !.result = "panic"]
               ELSE The({ IF w = NoPoint THEN [rs EXCEPT !.result = "panic"]
                          ELSE [rs EXCEPT !.cursor_pos = w]
                          : w \in {win_addstr(rs.raster.max, rs.win, k)} })
               : k \in {char_index(slice, insert_index - offset)} })
    ELSE rs

\* the loop of render_content_slices and of render_content_slices_active
\* (insert_index = NoOffset: no insert cursor is looked for)
RECURSIVE slices_loop(_, _, _, _, _, _, _)
slices_loop(rs, slices, limit, indentation, node_id, offset, insert_index) ==
    The({ IF slices = <<>> \/ x.result # "ok" THEN x
          ELSE The({ slices_loop(
                        IF str_len(slice) = limit /\ t.result = "ok"
                        THEN put(t, Filler(node_id), indentation)
                        ELSE t,
                        Tail(slices), limit, indentation, node_id,
                        offset + str_len(slice), insert_index)
                     : t \in {put_text(insert_cursor(x, slice, offset, insert_index),
                                       node_id, offset, Len(slice), str_len(slice))} })
          : x \in {rs}, slice \in {IF slices = <<>> THEN <<>> ELSE Head(slices)} })

render_content_slices(rs, slices, limit, indentation, node_id) ==
    IF slices = <<>> THEN put(rs, Placeholder(node_id), 1)
    ELSE slices_loop(rs, slices, limit, indentation, node_id, 0, NoOffset)

\* len: the bytes of all slices (the offset the loop ends with)
render_content_slices_active(rs, slices, limit, indentation, node_id, insert_index, len) ==
    IF slices = <<>>
    THEN [put(rs, Placeholder(node_id), 1) EXCEPT !.cursor_pos = rs.win]
    ELSE The({ IF done.result = "ok" /\ insert_index = len
               THEN [done EXCEPT !.cursor_pos = done.win]
               ELSE IF done.result = "ok" /\ done.cursor_pos = NoPoint
               THEN [done EXCEPT !.result = "panic"]
               ELSE done
               : done \in {slices_loop([rs EXCEPT !.cursor_pos = NoPoint], slices, limit,
                                       indentation, node_id, 0, insert_index)} })

\* render_bullet
render_bullet(rs, content, indentation_lvl, node_id, insert_offset) ==
    LET max         == rs.raster.max
        indentation == 2 * indentation_lvl
        len   == str_len(content)
        limit == limit_of(as_usize(max[2] - (indentation + 2)), len)
    IN The({ IF b.result # "ok" THEN b
             ELSE IF insert_offset # NoOffset /\ insert_offset > len
             THEN [b EXCEPT !.result = "panic"]
             ELSE IF split.result # "ok" THEN [b EXCEPT !.result = split.result]
             ELSE IF insert_offset # NoOffset
             THEN render_content_slices_active(b, split.slices, limit,
                                               indentation + 2, node_id,
                                               len - insert_offset, len)
             ELSE render_content_slices(b, split.slices, limit,
                                        indentation + 2, node_id)
             : b \in {put(put(put(rs, Empty, indentation), Bullet(node_id), 1),
                          Filler(node_id), 1)},
               split \in {split_every_n(content, limit)} })

\* subtree_render, and its loop over node.children_iter()
RECURSIVE subtree_render(_, _, _, _, _, _)
RECURSIVE children_render(_, _, _, _, _, _)
children_render(rs, h, children, indentation_lvl, insert_offset, active_id) ==
    The({ IF children = <<>> \/ x.result # "ok" THEN x
          ELSE children_render(
                  subtree_render(x, h, Head(children), indentation_lvl, insert_offset,
                                 active_id),
                  h, Tail(children), indentation_lvl, insert_offset, active_id)
          : x \in {rs} })

subtree_render(rs, h, node, indentation_lvl, insert_offset, active_id) ==
    LET is_active == h[node].id = active_id
    IN The({ LET kept == IF x.cursor_pos # NoPoint
                         THEN [b EXCEPT !.cursor_pos = x.cursor_pos] ELSE b
             IN children_render(
                   push_cleared(kept, clear_remaining_line(b.raster.max, b.win)),
                   h, h[node].children, indentation_lvl + 1, insert_offset, active_id)
             : x \in {rs},
               b \in {render_bullet(rs, h[node].content, indentation_lvl, h[node].id,
                                    IF is_active THEN insert_offset ELSE NoOffset)} })

\* tree_render(win, node, active_id, insert_offset) on a window of size max
tree_render(max, h, node, active_id, insert_offset) ==
    LET start == Rendering(<<0, 0>>, Raster_new(max), "ok", NoPoint)
    IN The({ The({ IF rest.result = "ok" /\ rest.cursor_pos = NoPoint
                   THEN [rest EXCEPT !.result = "panic"]
                   ELSE rest
                   : rest \in {push_cleared(body, clear_remaining(max, body.win))} })
             : body \in {children_render(start, h, h[node].children, 0, insert_offset,
                                         active_id)} })

Returned(op, arg, res) ==
    /\ last_op' = op
    /\ last_arg' = arg
    /\ last_result' = res

\* no loop is in progress
NoFrame == [fn |-> "none"]

\* Tree::new and an empty clipboard and undo log
TreeStart(first_id) ==
    LET t == Tree_new(first_id)
    IN /\ heap = t.heap
       /\ active = t.active
       /\ root = t.root
       /\ id_table = t.id_table
       /\ gen_current = t.gen_current
       /\ panicked = FALSE
       /\ clipboard = NoSubtree
       /\ history = <<>>

StartWith(first_id) ==
    /\ TreeStart(first_id)
    /\ sticky_key = NoKey
    /\ frame = NoFrame
    /\ raster = NoRaster
    /\ browser = NoPoint
    /\ cursor = NoCursor
    /\ last_op = "new"
    /\ last_arg = first_id
    /\ last_result = "ok"

Init == StartWith(GenFirst)

InitAnyGen == \E g \in 0..MaxGenFirst : StartWith(g)

CreateSiblingAbove ==
    /\ ~panicked
    /\ gen_current <= MaxId
    /\ LET node == Len(heap) + 1
           h1   == Append(heap, Node(gen_current, NoLink))
           r    == insert_node(h1, id_table, active, node, Above)
       IN /\ heap' = r.heap
          /\ id_table' = r.id_table
          /\ panicked' = r.panic
          /\ Returned("create_sibling_above", 0, IF r.panic THEN "panic" ELSE "ok")
    /\ gen_current' = gen_current + 1
    /\ UNCHANGED <<active, root, clipboard, history, raster, browser, cursor, frame, sticky_key>>

CreateSibling ==
    /\ ~panicked
    /\ gen_current <= MaxId
    /\ LET node == Len(heap) + 1
           h1   == Append(heap, Node(gen_current, NoLink))
           r    == insert_node(h1, id_table, active, node, Below)
       IN /\ heap' = r.heap
          /\ id_table' = r.id_table
          /\ panicked' = r.panic
          /\ active' = IF r.panic THEN active ELSE node
          /\ Returned("create_sibling", 0, IF r.panic THEN "panic" ELSE "ok")
    /\ gen_current' = gen_current + 1
    /\ UNCHANGED <<root, clipboard, history, raster, browser, cursor, frame, sticky_key>>

indent_clears_content(h, act, first) ==
    LET sibling == get_sibling(h, act, Above)
    IN IF sibling = NoLink THEN [result |-> "err", heap |-> h]
       ELSE LET parent == h[act].parent
                h1 == remove_child(h, parent, h[act].id)
                h2 == IF first THEN insert_child_first(h1, sibling, act)
                               ELSE insert_child_last(h1, sibling, act)
            IN [result |-> "ok",
                heap |-> [h2 EXCEPT ![act].parent = sibling, ![act].content = <<>>]]

indent(h, act, first) ==
    LET sibling == get_sibling(h, act, Above)
    IN IF sibling = NoLink THEN [result |-> "err", heap |-> h]
       ELSE LET parent == h[act].parent
                h1 == remove_child(h, parent, h[act].id)
                h2 == IF first THEN insert_child_first(h1, sibling, act)
                               ELSE insert_child_last(h1, sibling, act)
            IN [result |-> "ok", heap |-> [h2 EXCEPT ![act].parent = sibling]]

unindent_removes_before_check(h, act) ==
    LET parent == h[act].parent
    IN IF parent = NoLink THEN [result |-> "panic", heap |-> h]
       ELSE LET h1 == remove_child(h, parent, h[act].id)
            IN IF is_root(h1, parent) THEN [result |-> "err", heap |-> h1]
               ELSE LET grandparent == h1[parent].parent
                        r == insert_child_relative(h1, grandparent, h1[parent].id, Below, act)
                    IN [result |-> "ok",
                        heap |-> [r.heap EXCEPT ![act].parent = grandparent]]

unindent_before_parent(h, act) ==
    LET parent == h[act].parent
    IN IF parent = NoLink THEN [result |-> "panic", heap |-> h]
       ELSE IF is_root(h, parent) THEN [result |-> "err", heap |-> h]
       ELSE LET h1 == remove_child(h, parent, h[act].id)
                grandparent == h1[parent].parent
                r == insert_child_relative(h1, grandparent, h1[parent].id, Above, act)
            IN [result |-> "ok", heap |-> [r.heap EXCEPT ![act].parent = grandparent]]

unindent(h, act) ==
    LET parent == h[act].parent
    IN IF parent = NoLink THEN [result |-> "panic", heap |-> h]
       ELSE IF is_root(h, parent) THEN [result |-> "err", heap |-> h]
       ELSE LET h1 == remove_child(h, parent, h[act].id)
                grandparent == h1[parent].parent
            IN IF grandparent = NoLink THEN [result |-> "panic", heap |-> h1]
               ELSE LET r == insert_child_relative(h1, grandparent, h1[parent].id, Below, act)
                    IN IF ~r.ok THEN [result |-> "panic", heap |-> h1]
                       ELSE [result |-> "ok",
                             heap |-> [r.heap EXCEPT ![act].parent = grandparent]]

\* first arm of the match in Tree::delete
is_last_node_never(h, p) == FALSE

is_last_node(h, p) == is_root(h, p) /\ Len(h[p].children) = 1

\* the match in Tree::delete; act has a parent
delete_select_above_first(h, act) ==
    LET parent == h[act].parent
        above  == get_sibling(h, act, Above)
        below  == get_sibling(h, act, Below)
    IN IF is_last_node(h, parent) THEN [result |-> "err", active |-> act]
       ELSE IF above = NoLink /\ below = NoLink /\ ~is_root(h, parent)
            THEN [result |-> "ok", active |-> parent]
       ELSE IF above # NoLink THEN [result |-> "ok", active |-> above]
       ELSE IF below # NoLink THEN [result |-> "ok", active |-> below]
       ELSE [result |-> "panic", active |-> act]

delete_select(h, act) ==
    LET parent == h[act].parent
        above  == get_sibling(h, act, Above)
        below  == get_sibling(h, act, Below)
    IN IF is_last_node(h, parent) THEN [result |-> "err", active |-> act]
       ELSE IF above = NoLink /\ below = NoLink /\ ~is_root(h, parent)
            THEN [result |-> "ok", active |-> parent]
       ELSE IF below # NoLink THEN [result |-> "ok", active |-> below]
       ELSE IF above # NoLink /\ below = NoLink THEN [result |-> "ok", active |-> above]
       ELSE [result |-> "panic", active |-> act]

\* What can still be reached: through the Tree's root, active and id table
\* and through the Links a caller holds, then along children and parent
\* links.
RECURSIVE Closure(_, _)
Closure(h, S) ==
    LET T == (S \cup UNION {{h[n].children[i] : i \in 1..Len(h[n].children)} : n \in S}
                \cup {h[n].parent : n \in S}) \ {NoLink}
    IN IF T = S THEN S ELSE Closure(h, T)

Live(h, t, r, act, held) == Closure(h, {r, act} \cup {t[i] : i \in DOMAIN t} \cup held)

\* End of Tree::delete: active_link goes out of scope and nothing the Tree
\* or its caller holds leads to the deleted Links any more.  No operation
\* can read them again, so their records are cleared (only the id is kept).
drop_unreachable(h, t, r, act, held) ==
    [n \in 1..Len(h) |->
        IF n \in Live(h, t, r, act, held) THEN h[n] ELSE Node(h[n].id, NoLink)]

ids_of(h, links) == [i \in 1..Len(links) |-> h[links[i]].id]

delete(h, t, r, act, held) ==
    IF h[act].parent = NoLink
    THEN [result |-> "panic", heap |-> h, id_table |-> t, active |-> act, ids |-> <<>>]
    ELSE LET sel == delete_select(h, act)
         IN IF sel.result # "ok"
            THEN [result |-> sel.result, heap |-> h, id_table |-> t, active |-> act,
                  ids |-> <<>>]
            ELSE LET h1  == remove_child(h, h[act].parent, h[act].id)
                     ids == ids_of(h1, post_order(h1, act))
                     rm  == remove_ids(t, ids)
                 IN [result |-> IF rm.panic THEN "panic" ELSE "ok",
                     heap |-> drop_unreachable(h1, rm.id_table, r, sel.active, held),
                     id_table |-> rm.id_table, active |-> sel.active, ids |-> ids]

activate(t, act, id) ==
    LET link == get_node(t, id)
    IN IF link = NoLink THEN [result |-> "err", active |-> act]
       ELSE [result |-> "ok", active |-> link]

\* a node with everything below it, identities and Links left out
RECURSIVE document(_, _)
document(h, n) ==
    [content |-> h[n].content,
     children |-> [i \in 1..Len(h[n].children) |-> document(h, h[n].children[i])]]

\* ---- Subtree ------------------------------------------------------------
NoId == 0 - 1        \* Option<i32>::None of HistoryItem::Tree.sibling

\* fn make_unique_subtree: a clone of node whose children are clones made
\* the same way, each clone a new Link
RECURSIVE make_unique_subtree(_, _)
RECURSIVE clone_children(_, _, _)
clone_children(h, children, i) ==
    IF i > Len(children) THEN [heap |-> h, links |-> <<>>]
    ELSE LET c    == make_unique_subtree(h, children[i])
             rest == clone_children(c.heap, children, i + 1)
         IN [heap |-> rest.heap, links |-> <<c.link>> \o rest.links]

make_unique_subtree(h, node) ==
    LET cs == clone_children(h, h[node].children, 1)
    IN [heap |-> Append(cs.heap, [h[node] EXCEPT !.children = cs.links]),
        link |-> Len(cs.heap) + 1]

\* the Links below a set of Links, along child lists only
RECURSIVE descendants(_, _)
descendants(h, S) ==
    LET T == S \cup UNION {{h[n].children[i] : i \in 1..Len(h[n].children)} : n \in S}
    IN IF T = S THEN S ELSE descendants(h, T)

\* NodeIterator/TreeTraversalIterator come to an end from every Link: no
\* child list leads back to its own node
traversal_ends(h) ==
    \A n \in 1..Len(h) :
        n \notin descendants(h, {h[n].children[i] : i \in 1..Len(h[n].children)})

\* every Link is in at most one child list, at most once
tree_shaped(h) ==
    /\ traversal_ends(h)
    /\ \A n \in 1..Len(h) :
          Cardinality({<<m, i>> \in (1..Len(h)) \X (1..Len(h)) :
                          i <= Len(h[m].children) /\ h[m].children[i] = n}) <= 1

\* the specification, Subtree: "a detached, self-contained copy": the copy's root has
\* no parent and every other node of the copy has its parent in the copy
self_contained(h, r) ==
    LET copy == descendants(h, {r})
    IN [n \in 1..Len(h) |->
          IF n = r THEN [h[n] EXCEPT !.parent = NoLink]
          ELSE IF n \in copy
               THEN [h[n] EXCEPT !.parent =
                        CHOOSE k \in copy :
                            \E i \in 1..Len(h[k].children) : h[k].children[i] = n]
               ELSE h[n]]

\* Tree::get_subtree as the specification describes it (the source has todo!()): the
\* copy, with the former parent's id and the above sibling's id as the
\* callers in handlers.rs take them; act has a parent
get_subtree_copy(h, act) ==
    LET c     == make_unique_subtree(h, act)
        above == get_sibling(h, act, Above)
    IN [heap    |-> self_contained(c.heap, c.link),
        subtree |-> Subtree(c.link),
        parent  |-> h[h[act].parent].id,
        sibling |-> IF above = NoLink THEN NoId ELSE h[above].id]

\* Link::new for the nodes of a copy.  A Link is only a name: the copy is
\* given the lowest names nothing live uses, in the order it was made, and
\* names past the last one in use are given back.
RECURSIVE ascending(_)
ascending(S) ==
    IF S = {} THEN <<>>
    ELSE LET m == CHOOSE x \in S : \A y \in S : x <= y
         IN <<m>> \o ascending(S \ {m})

place_copy(h, live, subtree) ==
    LET copy  == descendants(h, {subtree.root})
        from  == ascending(copy)
        names == SubSeq(ascending((1..Len(h)) \ live), 1, Len(from))
        to(n) == IF n \in copy
                 THEN names[CHOOSE i \in 1..Len(from) : from[i] = n]
                 ELSE n
        used  == live \cup {names[i] : i \in 1..Len(names)}
        last  == CHOOSE x \in used : \A y \in used : y <= x
    IN [heap |-> [n \in 1..last |->
                    IF \E i \in 1..Len(names) : names[i] = n
                    THEN LET o == from[CHOOSE i \in 1..Len(names) : names[i] = n]
                         IN [id |-> h[o].id, parent |-> to(h[o].parent),
                             children |-> [k \in 1..Len(h[o].children) |->
                                              to(h[o].children[k])],
                             content |-> h[o].content]
                    ELSE IF n \in live THEN h[n]
                    ELSE Node(h[n].id, NoLink)],
        subtree |-> Subtree(to(subtree.root))]

\* the loop of Subtree::make_unique: node.borrow_mut().id = id_gen.gen()
RECURSIVE assign_ids(_, _, _)
assign_ids(h, nodes, gen) ==
    IF nodes = <<>> THEN [heap |-> h, gen_current |-> gen]
    ELSE assign_ids([h EXCEPT ![Head(nodes)].id = gen], Tail(nodes), gen + 1)

make_unique_one_id(h, subtree, gen) ==
    [heap |-> [n \in 1..Len(h) |->
                  IF n \in descendants(h, {subtree.root})
                  THEN [h[n] EXCEPT !.id = gen] ELSE h[n]],
     gen_current |-> gen + 1]

make_unique(h, subtree, gen) == assign_ids(h, post_order(h, subtree.root), gen)

insert_subtree_keeps_active(h, t, act, gen, subtree, dir) ==
    LET u == make_unique(h, subtree, gen)
        r == insert_node(u.heap, t, act, subtree.root, dir)
    IN [result |-> IF r.panic THEN "panic" ELSE "ok",
        heap |-> r.heap, id_table |-> r.id_table, active |-> act,
        gen_current |-> u.gen_current]

insert_subtree(h, t, act, gen, subtree, dir) ==
    LET u       == make_unique(h, subtree, gen)
        root_id == u.heap[subtree.root].id
        r       == insert_node(u.heap, t, act, subtree.root, dir)
        a       == activate(r.id_table, act, root_id)
    IN [result |-> IF r.panic \/ a.result = "err" THEN "panic" ELSE "ok",
        heap |-> r.heap, id_table |-> r.id_table,
        active |-> IF r.panic THEN act ELSE a.active,
        gen_current |-> u.gen_current]

\* ---- handlers.rs: the items of the undo log -----------------------------
\* HistoryItem::Tree { parent, sibling, tree, cursor }: the ids of the
\* deleted node's former parent and above sibling (NoId: none), the
\* Subtree taken out and the cursor at the time of the delete
HistoryItem(parent, sibling, tree, cur) ==
    [kind |-> "Tree", parent |-> parent, sibling |-> sibling, tree |-> tree,
     cursor |-> cur]

\* HistoryItem::Text { .. }
HistoryText == [kind |-> "Text"]

Indent ==
    /\ ~panicked
    /\ \E first \in BOOLEAN :
        LET r == indent(heap, active, first)
        IN /\ heap' = r.heap
           /\ panicked' = (r.result = "panic")
           /\ Returned("indent", first, r.result)
    /\ UNCHANGED <<active, root, id_table, gen_current, clipboard, history, raster, browser, cursor,
                   frame, sticky_key>>

Unindent ==
    /\ ~panicked
    /\ LET r == unindent(heap, active)
       IN /\ heap' = r.heap
          /\ panicked' = (r.result = "panic")
          /\ Returned("unindent", 0, r.result)
    /\ UNCHANGED <<active, root, id_table, gen_current, clipboard, history, raster, browser, cursor,
                   frame, sticky_key>>

Activate ==
    /\ ~panicked
    /\ \E id \in 0..MaxId :
        LET r == activate(id_table, active, id)
        IN /\ active' = r.active
           /\ Returned("activate", id, r.result)
    /\ UNCHANGED <<heap, root, id_table, gen_current, panicked, clipboard, history, raster, browser, cursor,
                   frame, sticky_key>>

Delete ==
    /\ ~panicked
    /\ LET r == delete(heap, id_table, root, active, Held(clipboard, history))
       IN /\ heap' = r.heap
          /\ id_table' = r.id_table
          /\ active' = r.active
          /\ panicked' = (r.result = "panic")
          /\ Returned("delete", r.ids, r.result)
    /\ UNCHANGED <<root, gen_current, clipboard, history, raster, browser, cursor, frame,
                   sticky_key>>

\* Tree::get_subtree is todo!()
GetSubtree ==
    /\ ~panicked
    /\ panicked' = TRUE
    /\ Returned("get_subtree", 0, "panic")
    /\ UNCHANGED <<heap, active, root, id_table, gen_current, clipboard, history, raster, browser, cursor,
                   frame, sticky_key>>

\* Tree::get_subtree as the specification describes it, and the caller keeping the
\* Subtree as the clipboard (command_y)
GetSubtreeCopy ==
    /\ ~panicked
    /\ heap[active].parent # NoLink
    /\ LET g  == get_subtree_copy(heap, active)
           pl == place_copy(g.heap,
                            Live(g.heap, id_table, root, active, Held(NoSubtree, history)),
                            g.subtree)
       IN /\ Len(pl.heap) <= MaxHeap
          /\ heap' = pl.heap
          /\ clipboard' = pl.subtree
    /\ Returned("get_subtree", 0, "ok")
    /\ UNCHANGED <<active, root, id_table, gen_current, panicked, history, raster, browser, cursor,
                   frame, sticky_key>>

\* p.tree.insert_subtree(subtree.clone(), below) of command_p_shift_p
InsertSubtree ==
    /\ ~panicked
    /\ clipboard # NoSubtree
    /\ \E dir \in Dir :
        LET r == insert_subtree(heap, id_table, active, gen_current, clipboard, dir)
        IN /\ r.gen_current <= MaxId + 1
           /\ heap' = r.heap
           /\ id_table' = r.id_table
           /\ active' = r.active
           /\ gen_current' = r.gen_current
           /\ panicked' = (r.result = "panic")
           /\ Returned("insert_subtree", dir, r.result)
    /\ UNCHANGED <<root, clipboard, history, raster, browser, cursor, frame, sticky_key>>

Next ==
    \/ Indent
    \/ Unindent
    \/ Activate
    \/ Delete
    \/ GetSubtree
    \/ CreateSiblingAbove
    \/ CreateSibling

Spec == Init /\ [][Next]_vars

SpecAnyGen == InitAnyGen /\ [][Next]_vars

\* SpecSubtree: the Tree with a clipboard (copy and paste).  A run is
\* followed as long as the document is a tree.
NextSubtree ==
    \/ (tree_shaped(heap) /\ Indent)
    \/ (tree_shaped(heap) /\ Activate)
    \/ (tree_shaped(heap) /\ gen_current <= MaxBuildId /\ CreateSibling)
    \/ (tree_shaped(heap) /\ GetSubtreeCopy)
    \/ (tree_shaped(heap) /\ InsertSubtree)

SpecSubtree == Init /\ [][NextSubtree]_vars

\* ---- the grid and its Browser as a state machine ---------------------------
RasterSizes == {<<r, c>> : r \in 1..MaxRows, c \in 1..MaxCols}

\* the cells pushed: one that is text and one that is not
Pixels == {Empty, Text(GenFirst, 0)}

\* last_arg of a Browser motion: the position it starts from and its arguments
Motion(dir, count, pred) ==
    [from |-> browser, dir |-> dir, count |-> count, pred |-> pred]

\* Raster::new(max) for a window of size max; no Browser and no cursor yet
InitRaster ==
    /\ TreeStart(GenFirst)
    /\ \E max \in RasterSizes :
          /\ raster = Raster_new(max)
          /\ last_arg = max
    /\ browser = NoPoint
    /\ cursor = NoCursor
    /\ last_op = "Raster::new"
    /\ sticky_key = NoKey
    /\ frame = NoFrame
    /\ last_result = "ok"

\* Raster::push; a Browser borrows the Raster, so none exists while cells
\* are pushed
RasterPush ==
    /\ ~panicked
    /\ browser = NoPoint /\ cursor = NoCursor
    /\ \E state \in Pixels :
       \E p \in {push(raster, state)} :
          /\ raster' = p.raster
          /\ panicked' = p.panic
          /\ Returned("push", state, IF p.panic THEN "panic" ELSE "ok")
    /\ UNCHANGED <<tree_vars, browser, cursor, frame, sticky_key>>

\* Raster::browser(pos)
RasterBrowser ==
    /\ ~panicked
    /\ \E pos \in ((0 - 1)..MaxRows) \X ((0 - 1)..MaxCols) :
       \E b \in {browser_at(raster, pos)} :
          /\ browser' = IF b.result = "ok" THEN b.pos ELSE browser
          /\ Returned("browser", pos, b.result)
    /\ UNCHANGED <<tree_vars, panicked, raster, cursor, frame, sticky_key>>

\* a motion of (a clone of) the Browser: the Browser it returns, or the Err
Motioned(op, arg, g) ==
    /\ browser' = IF g.result = "ok" THEN g.pos ELSE browser
    /\ panicked' = (g.result = "panic")
    /\ Returned(op, arg, g.result)
    /\ UNCHANGED <<tree_vars, raster, cursor, frame, sticky_key>>

GoWhile ==
    /\ ~panicked /\ browser # NoPoint
    /\ \E dir \in Direction, pred \in {"is_text", "not_text"} :
       \E g \in {go_while(raster, browser, dir, pred)} :
          Motioned("go_while", Motion(dir, 0, pred), g)

GoWhileOrCount ==
    /\ ~panicked /\ browser # NoPoint
    /\ \E dir \in Direction, count \in 0..MaxCount, pred \in {"is_text", "not_text"} :
       \E g \in {go_while_or_count(raster, browser, dir, count, pred)} :
          Motioned("go_while_or_count", Motion(dir, count, pred), g)

GoUntilCount ==
    /\ ~panicked /\ browser # NoPoint
    /\ \E dir \in Direction, count \in 0..MaxCount, pred \in {"is_text", "not_text"} :
       \E g \in {go_until_count(raster, browser, dir, count, pred)} :
          Motioned("go_until_count", Motion(dir, count, pred), g)

GoNoWrap ==
    /\ ~panicked /\ browser # NoPoint
    /\ \E dir \in Direction :
       \E g \in {go_no_wrap(raster, browser, dir)} :
          Motioned("go_no_wrap", Motion(dir, 1, "none"), g)

FindLeftText ==
    /\ ~panicked /\ browser # NoPoint
    /\ \E col \in 0..MaxCols :
       \E g \in {find_left_text(raster, browser, col)} :
          Motioned("find_left_text", Motion(Left, col, "not_browsable"), g)

\* SpecBrowser: a Raster filled cell by cell and a Browser moved over it
NextBrowser ==
    \/ RasterPush
    \/ RasterBrowser
    \/ GoWhile
    \/ GoWhileOrCount
    \/ GoUntilCount
    \/ GoNoWrap
    \/ FindLeftText

SpecBrowser == InitRaster /\ [][NextBrowser]_vars

\* a command-mode cursor on a browsable cell (the handlers' invariant)
PlaceCursor ==
    /\ ~panicked
    /\ cursor = NoCursor
    /\ \E pos \in (0..(MaxRows - 1)) \X (0..(MaxCols - 1)) :
          /\ is_browsable(get(raster, pos))
          /\ cursor' = new_command(pos)
          /\ Returned("new_command", pos, "ok")
    /\ UNCHANGED <<tree_vars, panicked, raster, browser, frame, sticky_key>>

\* command_jk, keys "j" and "k"
CommandJK ==
    /\ ~panicked
    /\ cursor # NoCursor
    /\ \E key \in {"j", "k"} :
       \E r \in {command_jk(raster, cursor, key)} :
          /\ cursor' = r.cursor
          /\ sticky_key' = IF r.result = "ok" THEN NoKey ELSE sticky_key
          /\ panicked' = (r.result = "panic")
          /\ Returned("command_jk", key, r.result)
    /\ UNCHANGED <<tree_vars, raster, browser, frame>>

\* SpecCursor: a Raster filled cell by cell, then vertical motion over it
NextCursor ==
    \/ RasterPush
    \/ PlaceCursor
    \/ CommandJK

SpecCursor == InitRaster /\ [][NextCursor]_vars

\* ---- linear_move on its own ---------------------------------------------------
\* linear_move(pos, max, offset) for the bounds of the Raster, a position in
\* or one cell around the largest grid, and an offset; last_arg holds the three
\* inputs and last_result the Option<(i32, i32)> (NoPoint: None)
LinearMove ==
    /\ ~panicked
    /\ \E pos \in ((0 - 1)..MaxRows) \X ((0 - 1)..MaxCols),
          offset \in (0 - MaxOffset)..MaxOffset :
          Returned("linear_move", [pos |-> pos, max |-> raster.max, offset |-> offset],
                   linear_move(pos, raster.max, offset))
    /\ UNCHANGED <<tree_vars, panicked, raster, browser, cursor, frame, sticky_key>>

SpecLinearMove == InitRaster /\ [][LinearMove]_vars

\* ---- the loop of Browser::go_while, one iteration a step ---------------------
Scans == {"go_while", "go_while_or_count", "go_until_count"}

\* the closure a scan hands to go_while
ScanClosure(fn, pred, count) ==
    CASE fn = "go_while"          -> FnMut("plain", pred, count)
      [] fn = "go_while_or_count" -> FnMut("or_count", pred, count)
      [] fn = "go_until_count"    -> FnMut("until_count", pred, count)

\* last_arg of a scan that has returned: its arguments, and the number of
\* iterations its loop began
Scanned(from, dir, count, pred, steps) ==
    [from |-> from, dir |-> dir, count |-> count, pred |-> pred, steps |-> steps]

\* a scan is called on (a clone of) a Browser fresh from Raster::browser,
\* which every in-bounds position has: it returns at once for a count of 0
\* and for Up and Down, and enters go_while's loop otherwise
ScanCall ==
    /\ ~panicked
    /\ browser # NoPoint /\ frame = NoFrame
    /\ last_op = "browser"
    /\ \E fn \in Scans, dir \in Direction, count \in 0..MaxCount,
          pred \in {"is_text", "not_text", "always"} :
          /\ fn = "go_while" => count = 0
          /\ IF fn # "go_while" /\ count = 0
             THEN /\ frame' = NoFrame
                  /\ Returned(fn, Scanned(browser, dir, count, pred, 0), "ok")
             ELSE IF dir \notin {Left, Right}
             THEN /\ frame' = NoFrame
                  /\ Returned(fn, Scanned(browser, dir, count, pred, 0), ErrGoWhileDir)
             ELSE /\ frame' = [fn |-> fn, pos |-> browser,
                               offset |-> IF dir = Left THEN 0 - 1 ELSE 1,
                               f |-> ScanClosure(fn, pred, count), steps |-> 0,
                               arg |-> Scanned(browser, dir, count, pred, 0)]
                  /\ UNCHANGED <<last_op, last_arg, last_result>>
    /\ UNCHANGED <<tree_vars, panicked, raster, browser, cursor, sticky_key>>

\* the scan returns res with the Browser on pos
ScanReturn(pos, res) ==
    /\ frame' = NoFrame
    /\ browser' = pos
    /\ Returned(frame.fn, [frame.arg EXCEPT !.steps = frame.steps + 1], res)

\* one iteration of the loop of go_while; the guard on steps only keeps a
\* loop that does not end within the number of cells from counting for ever
ScanStep ==
    /\ ~panicked
    /\ frame # NoFrame /\ frame.fn \in Scans
    /\ frame.steps <= raster.max[1] * raster.max[2]
    /\ \E next \in {linear_move(frame.pos, raster.max, frame.offset)} :
          IF next = NoPoint THEN ScanReturn(browser, ErrPastBounds)
          ELSE IF get(raster, next) = NoPixel
          THEN /\ frame' = [frame EXCEPT !.pos = next, !.steps = @ + 1]
               /\ UNCHANGED <<browser, last_op, last_arg, last_result>>
          ELSE \E c \in {call(frame.f, get(raster, next))} :
               IF ~c.value THEN ScanReturn(next, "ok")
               ELSE /\ frame' = [frame EXCEPT !.pos = next, !.f = c.closure,
                                              !.steps = @ + 1]
                    /\ UNCHANGED <<browser, last_op, last_arg, last_result>>
    /\ UNCHANGED <<tree_vars, panicked, raster, cursor, sticky_key>>

\* SpecScan: a Raster filled cell by cell, a Browser placed on it, and scans
\* run an iteration at a time; a scan that has begun is not abandoned
NextScan ==
    \/ (frame = NoFrame /\ RasterPush)
    \/ (frame = NoFrame /\ RasterBrowser)
    \/ ScanCall
    \/ ScanStep

SpecScan == InitRaster /\ [][NextScan]_vars /\ WF_vars(ScanStep)

\* ---- split_every_n, one iteration of its loop a step --------------------------
\* a char of one byte and a char of two: 'a' and 'é'
Chars == {97, 233}

Strings == UNION {[1..k -> Chars] : k \in 0..MaxLen}

\* split_every_n(string, n) is called: an empty string returns at once
SplitCall ==
    /\ ~panicked
    /\ frame = NoFrame
    /\ \E string \in Strings, n \in 0..MaxWidth :
          IF string = <<>>
          THEN /\ frame' = NoFrame
               /\ Returned("split_every_n", [string |-> string, n |-> n], <<>>)
          ELSE /\ frame' = [fn |-> "split_every_n", string |-> string, n |-> n,
                            start |-> 0, end |-> n, slices |-> <<>>]
               /\ UNCHANGED <<last_op, last_arg, last_result>>
    /\ UNCHANGED <<tree_vars, panicked, raster, browser, cursor, sticky_key>>

\* one iteration of `while end < string.len()`: the slice is pushed, or the
\* slice panics and the call ends with it; the guard on slices only keeps a
\* loop that does not end from growing its Vec for ever
SplitLoop ==
    /\ ~panicked
    /\ frame.fn = "split_every_n"
    /\ frame.end < str_len(frame.string)
    /\ Len(frame.slices) <= str_len(frame.string)
    /\ \E s \in {Slice(frame.string, frame.start, frame.end)} :
          IF s.panic
          THEN /\ frame' = NoFrame
               /\ panicked' = TRUE
               /\ Returned("split_every_n", [string |-> frame.string, n |-> frame.n],
                           <<>>)
          ELSE /\ frame' = [frame EXCEPT !.slices = Append(@, s.slice),
                                         !.start = frame.end,
                                         !.end = @ + frame.n]
               /\ UNCHANGED <<panicked, last_op, last_arg, last_result>>
    /\ UNCHANGED <<tree_vars, raster, browser, cursor, sticky_key>>

\* the loop is left: the rest of the string is the last slice
SplitReturn ==
    /\ ~panicked
    /\ frame.fn = "split_every_n"
    /\ frame.end >= str_len(frame.string)
    /\ frame' = NoFrame
    /\ \E s \in {Slice(frame.string, frame.start, str_len(frame.string))} :
          /\ panicked' = s.panic
          /\ Returned("split_every_n", [string |-> frame.string, n |-> frame.n],
                      IF s.panic THEN <<>> ELSE Append(frame.slices, s.slice))
    /\ UNCHANGED <<tree_vars, raster, browser, cursor, sticky_key>>

\* SpecSplit: calls of split_every_n; a call that has begun keeps running
NextSplit ==
    \/ SplitCall
    \/ SplitLoop
    \/ SplitReturn

SpecSplit ==
    Init /\ [][NextSplit]_vars /\ WF_vars(SplitLoop) /\ WF_vars(SplitReturn)

\* ---- the render pass as a state machine -------------------------------------
WindowSizes == {<<r, c>> : r \in 1..MaxWinRows, c \in 1..MaxWinCols}

\* what a caller of the Tree writes into a node: texts of up to MaxContent
\* characters
Contents == UNION {[1..k -> {97}] : k \in 0..MaxContent}

\* Tree::get_mut_active_content: the caller borrows the active node's content
\* as a &mut String and leaves in it the text it chooses (the Tree has no
\* other way to write content; on_insert_key_press, insert_backspace and
\* insert_arrow_keys are the callers in the Editor)
GetMutActiveContent ==
    /\ ~panicked
    /\ \E s \in Contents :
          /\ heap' = [heap EXCEPT ![active].content = s]
          /\ Returned("get_mut_active_content", s, "ok")
    /\ UNCHANGED <<active, root, id_table, gen_current, panicked, clipboard, history,
                   raster, browser, cursor, frame, sticky_key>>

\* tree_render(win, tree.root_iter(), tree.get_active_id(), 0) on a window of
\* size max; last_arg: the window size and the anchor position returned
TreeRender ==
    /\ ~panicked
    /\ \E max \in WindowSizes :
       \E r \in {tree_render(max, heap, root, heap[active].id, 0)} :
          /\ r.result # "hang"
          /\ raster' = r.raster
          /\ panicked' = (r.result = "panic")
          /\ Returned("tree_render", [max |-> max, pos |-> r.cursor_pos], r.result)
    /\ UNCHANGED <<tree_vars, browser, cursor, frame, sticky_key>>

\* SpecRender: a document is written, then rendered
NextRender ==
    \/ (raster = NoRaster /\ gen_current <= MaxBuildId /\ CreateSibling)
    \/ (raster = NoRaster /\ Indent)
    \/ (raster = NoRaster /\ GetMutActiveContent)
    \/ (raster = NoRaster /\ TreeRender)

SpecRender == Init /\ [][NextRender]_vars

\* ---- editor.rs, handlers.rs: the Editor ------------------------------------
\* The Editor as the handlers see it (HandlerInput): the Tree, the Raster of
\* the last render, the Cursor, the sticky key, the clipboard and the undo
\* log (p.history).  The window is the one given to Editor::new; its size is
\* raster.max.
Editor(h, t, r, act, gen, ras, cur, sticky, clip, hist) ==
    [heap |-> h, id_table |-> t, root |-> r, active |-> act, gen_current |-> gen,
     raster |-> ras, cursor |-> cur, sticky_key |-> sticky, clipboard |-> clip,
     history |-> hist]

\* what a key press comes to: Ok (the HandlerOutput absorbed), Err (nothing
\* absorbed; what the handler did to the Tree before stays), a panic, or
\* "hang" (a render that does not return)
Handled(result, e) == [result |-> result, e |-> e]

\* Browser::go_wrap(dir, count): count cells along the grid's linear
\* addressing, rows wrapping
go_wrap(r, pos, dir, count) ==
    LET p == linear_move(pos, r.max, IF dir = Left THEN 0 - count ELSE count)
    IN IF p = NoPoint THEN Failed(ErrPastBounds, pos) ELSE Moved(p)

\* PixelState::id of raster.get(pos).unwrap(): the node of a cell; NoId: the
\* cell has none (the call panics)
pixel_id(r, pos) ==
    LET state == get(r, pos)
    IN IF state.kind \in {"Text", "Placeholder", "Bullet", "Filler"} THEN state.id ELSE NoId

\* tree_render as the Editor calls it: on its window, for the Tree's active
\* node
editor_render(e, insert_offset) ==
    tree_render(e.raster.max, e.heap, e.root, e.heap[e.active].id, insert_offset)

\* render_and_make_insert_output(tree, win, offset)
render_and_make_insert_output(e, offset) ==
    The({ IF rr.result = "ok"
          THEN Handled("ok", [e EXCEPT !.raster = rr.raster,
                                       !.cursor = InsertState(rr.cursor_pos, offset),
                                       !.sticky_key = NoKey])
          ELSE Handled(rr.result, e)
          : rr \in {editor_render(e, 0)} })

\* what a String is after a call that changes it, or the call's panic
Changed(panic, content) == [panic |-> panic, content |-> content]

\* String::insert_str(index, string): index is a byte index and has to be a
\* char boundary
insert_str(content, index, string) ==
    The({ IF k = NoBoundary THEN Changed(TRUE, content)
          ELSE Changed(FALSE, SubSeq(content, 1, k) \o string
                                 \o SubSeq(content, k + 1, Len(content)))
          : k \in {char_index(content, index)} })

\* String::remove(index): the char that starts at byte index goes
remove(content, index) ==
    The({ IF k = NoBoundary \/ k >= Len(content) THEN Changed(TRUE, content)
          ELSE Changed(FALSE, SubSeq(content, 1, k) \o SubSeq(content, k + 2, Len(content)))
          : k \in {char_index(content, index)} })

\* Editor::on_insert_key_press with a key that has no insert handler; key is
\* the key's name as a string (its chars)
insert_key(e, key) ==
    LET content == e.heap[e.active].content
        offset  == e.cursor.offset
    IN IF offset > str_len(content) THEN Handled("panic", e)
       ELSE The({ IF c.panic THEN Handled("panic", e)
                  ELSE The({ The({ IF rr.result = "ok"
                                   THEN Handled("ok",
                                           [e1 EXCEPT !.raster = rr.raster,
                                                      !.cursor = InsertState(rr.cursor_pos,
                                                                             offset)])
                                   ELSE Handled(rr.result, e1)
                                   : rr \in {editor_render(e1, offset)} })
                             : e1 \in {[e EXCEPT !.heap[e.active].content = c.content]} })
                  : c \in {insert_str(content, str_len(content) - offset, key)} })

\* insert_tab: Tree::indent as the last child
insert_tab(e) ==
    LET r == indent(e.heap, e.active, FALSE)
    IN IF r.result # "ok" THEN Handled(r.result, e)
       ELSE render_and_make_insert_output([e EXCEPT !.heap = r.heap], 0)

insert_shift_tab(e) ==
    LET r == unindent(e.heap, e.active)
    IN IF r.result # "ok" THEN Handled(r.result, [e EXCEPT !.heap = r.heap])
       ELSE render_and_make_insert_output([e EXCEPT !.heap = r.heap], 0)

\* Tree::create_sibling (Below) and Tree::create_sibling_above (Above, the
\* active node stays)
create_sibling_at(e, dir) ==
    LET node == Len(e.heap) + 1
        h1   == Append(e.heap, Node(e.gen_current, NoLink))
        r    == insert_node(h1, e.id_table, e.active, node, dir)
    IN Handled(IF r.panic THEN "panic" ELSE "ok",
               [e EXCEPT !.heap = r.heap, !.id_table = r.id_table,
                         !.gen_current = e.gen_current + 1,
                         !.active = IF r.panic \/ dir = Above THEN e.active ELSE node])

insert_enter(e) ==
    LET c == create_sibling_at(e, Below)
    IN IF c.result # "ok" THEN c ELSE render_and_make_insert_output(c.e, 0)

\* the else branch of insert_backspace: the bullet goes; its next sibling
\* (itr.next_sibling(): the sibling below it) or else its parent becomes the
\* active node
backspace_bullet(e) ==
    LET below  == get_sibling(e.heap, e.active, Below)
        parent == e.heap[e.active].parent
        new_active == IF below # NoLink THEN e.heap[below].id
                      ELSE IF parent # NoLink THEN e.heap[parent].id ELSE NoId
    IN IF new_active = NoId THEN Handled("err", e)
       ELSE The({ IF d.result # "ok" THEN Handled(d.result, e)
                  ELSE The({ IF a.result # "ok"
                             THEN Handled("err", [e EXCEPT !.heap = d.heap,
                                                            !.id_table = d.id_table,
                                                            !.active = d.active])
                             ELSE render_and_make_insert_output(
                                     [e EXCEPT !.heap = d.heap, !.id_table = d.id_table,
                                               !.active = a.active], 0)
                             : a \in {activate(d.id_table, d.active, new_active)} })
                  : d \in {delete(e.heap, e.id_table, e.root, e.active,
                                   Held(e.clipboard, e.history))} })

\* insert_backspace
insert_backspace(e) ==
    LET content == e.heap[e.active].content
        offset  == e.cursor.offset
    IN IF offset > str_len(content) THEN Handled("panic", e)
       ELSE IF str_len(content) - offset >= 1
       THEN The({ IF c.panic THEN Handled("panic", e)
                  ELSE render_and_make_insert_output(
                          [e EXCEPT !.heap[e.active].content = c.content], 0)
                  : c \in {remove(content, str_len(content) - offset - 1)} })
       ELSE backspace_bullet(e)

\* insert_control_c
insert_control_c(e) ==
    LET pos   == e.cursor.pos
        state == get(e.raster, pos)
    IN IF state = NoPixel THEN Handled("panic", e)
       ELSE IF is_browsable(state)
       THEN Handled("ok", [e EXCEPT !.cursor = CommandState(pos, pos[2]),
                                    !.sticky_key = NoKey])
       ELSE IF state = Empty
       THEN LET g == go_wrap(e.raster, pos, Left, 1)
            IN IF g.result # "ok" THEN Handled("err", e)
               ELSE IF ~is_text(get(e.raster, g.pos)) THEN Handled("panic", e)
               ELSE Handled("ok", [e EXCEPT !.cursor = CommandState(g.pos, g.pos[2]),
                                            !.sticky_key = NoKey])
       ELSE Handled("panic", e)

\* command_i
command_i(e) ==
    LET pos   == e.cursor.pos
        state == get(e.raster, pos)
    IN IF ~is_browsable(state) THEN Handled("panic", e)
       ELSE LET offset == IF is_text(state) THEN state.offset ELSE 0
                a      == activate(e.id_table, e.active, state.id)
            IN IF a.result # "ok" THEN Handled("err", e)
               ELSE IF offset > str_len(e.heap[a.active].content) THEN Handled("panic", e)
               ELSE Handled("ok",
                       [e EXCEPT !.active = a.active,
                                 !.cursor = InsertState(pos,
                                               str_len(e.heap[a.active].content) - offset),
                                 !.sticky_key = NoKey])

\* command_hl
command_hl(e, key) ==
    LET direction == IF key = "h" THEN Left ELSE Right
        b == browser_at(e.raster, e.cursor.pos)
        g == go_while(e.raster, e.cursor.pos, direction, "not_browsable")
    IN IF b.result # "ok" THEN Handled("panic", e)
       ELSE IF g.result # "ok" THEN Handled("err", e)
       ELSE Handled("ok", [e EXCEPT !.cursor = new_command(g.pos), !.sticky_key = NoKey])

\* command_jk, the output absorbed
command_jk_absorbed(e, key) ==
    LET o == command_jk(e.raster, e.cursor, key)
    IN IF o.result = "panic" THEN Handled("panic", e)
       ELSE IF o.result # "ok" THEN Handled("err", e)
       ELSE Handled("ok", [e EXCEPT !.cursor = o.cursor, !.sticky_key = NoKey])

SEPARATORS == {32}

NoIndex == 0 - 1     \* Option<usize>::None of find_separator

IndexPanic == 0 - 2  \* string[index] past the last char

\* the loops of find_separator over the chars of the string (Vec<char>);
\* index counts from 0
RECURSIVE find_separator_loop(_, _, _, _)
find_separator_loop(string, index, reverse, sep) ==
    IF reverse
    THEN IF index > 1
         THEN IF index - 1 >= Len(string) THEN IndexPanic
              ELSE IF string[index] \in sep THEN index - 1
              ELSE find_separator_loop(string, index - 1, reverse, sep)
         ELSE NoIndex
    ELSE IF index < Len(string) - 1
         THEN IF string[index + 2] \in sep THEN index + 1
              ELSE find_separator_loop(string, index + 1, reverse, sep)
         ELSE NoIndex

\* find_separator: the guard compares index with the length in bytes
find_separator(string, index, reverse, sep) ==
    IF index >= str_len(string) THEN NoIndex
    ELSE find_separator_loop(string, index, reverse, sep)

\* jump_to_next_separator: where the Browser ends, the Err of go_wrap, or
\* "panic" (a direction other than Left and Right, find_separator)
RECURSIVE jump_to_next_separator(_, _, _, _, _, _, _)
jump_to_next_separator(r, string, index, dir, final_offset, sep, pos) ==
    IF dir \notin {Left, Right} THEN Failed("panic", pos)
    ELSE
    The({
       IF i = IndexPanic THEN Failed("panic", pos)
       ELSE IF i # NoIndex /\ Abs(i - index) = 1
       THEN LET g == go_wrap(r, pos, dir, 1)
            IN IF g.result # "ok" THEN g
               ELSE jump_to_next_separator(r, string, i, dir, final_offset, sep, g.pos)
       ELSE LET found == IF i # NoIndex THEN i + final_offset
                         ELSE IF dir = Left THEN 0 ELSE len - 1
                final_index == IF found < 0 THEN 0
                               ELSE IF found >= len
                               THEN (IF len = 0 THEN 0 ELSE len - 1)
                               ELSE found
            IN go_wrap(r, pos, dir, Abs(final_index - index))
       : i \in {find_separator(string, index, dir = Left, sep)},
         len \in {str_len(string)} })

\* command_bwe
command_bwe(e, key) ==
    LET pos   == e.cursor.pos
        state == get(e.raster, pos)
    IN IF ~is_text(state) THEN Handled("err", e)
       ELSE LET a == activate(e.id_table, e.active, state.id)
                content == e.heap[a.active].content
                dir == IF key = "b" THEN Left ELSE Right
                final_offset == IF key = "e" THEN 0 - 1 ELSE 1
                skip_index == IF key = "b" THEN 0 ELSE str_len(content) - 1
                g == IF state.offset = skip_index
                     THEN go_while(e.raster, pos, dir, "not_browsable")
                     ELSE Moved(pos)
            IN IF a.result # "ok" THEN Handled("err", e)
               ELSE IF key # "b" /\ content = <<>>
               THEN Handled("panic", [e EXCEPT !.active = a.active])
               ELSE IF g.result # "ok" THEN Handled("err", [e EXCEPT !.active = a.active])
               ELSE IF ~is_text(get(e.raster, g.pos))
               THEN Handled("panic", [e EXCEPT !.active = a.active])
               ELSE LET s == get(e.raster, g.pos)
                        a2 == activate(e.id_table, a.active, s.id)
                        j == jump_to_next_separator(e.raster, e.heap[a2.active].content,
                                                    s.offset, dir, final_offset,
                                                    SEPARATORS, g.pos)
                    IN IF a2.result # "ok"
                       THEN Handled("err", [e EXCEPT !.active = a.active])
                       ELSE IF j.result = "panic"
                       THEN Handled("panic", [e EXCEPT !.active = a2.active])
                       ELSE IF j.result # "ok"
                       THEN Handled("err", [e EXCEPT !.active = a2.active])
                       ELSE Handled("ok", [e EXCEPT !.active = a2.active,
                                                    !.cursor = new_command(j.pos),
                                                    !.sticky_key = NoKey])

\* command_shift_a
command_shift_a(e) ==
    LET pos == e.cursor.pos
        id  == pixel_id(e.raster, pos)
        a   == activate(e.id_table, e.active, id)
        g   == go_while(e.raster, pos, Right, "is_browsable")
    IN IF id = NoId THEN Handled("panic", e)
       ELSE IF a.result # "ok" THEN Handled("err", e)
       ELSE IF get(e.raster, pos).kind = "Placeholder"
       THEN Handled("ok", [e EXCEPT !.active = a.active, !.cursor = new_insert(pos),
                                    !.sticky_key = NoKey])
       ELSE IF g.result # "ok" THEN Handled("panic", [e EXCEPT !.active = a.active])
       ELSE Handled("ok", [e EXCEPT !.active = a.active, !.cursor = new_insert(g.pos),
                                    !.sticky_key = NoKey])

\* command_o (Below) and command_shift_o (Above)
command_o(e, dir) ==
    LET id == pixel_id(e.raster, e.cursor.pos)
        a  == activate(e.id_table, e.active, id)
    IN IF id = NoId THEN Handled("panic", e)
       ELSE IF a.result # "ok" THEN Handled("err", e)
       ELSE The({ IF c.result # "ok" THEN c ELSE render_and_make_insert_output(c.e, 0)
                  : c \in {create_sibling_at([e EXCEPT !.active = a.active], dir)} })

\* command_d and command_y: the first press is remembered as the sticky
\* key; the second one activates the node under the cursor and calls
\* Tree::get_subtree, which is todo!(): the rest of the two handlers (delete,
\* render, clipboard, undo log) is never reached
command_dy(e, key) ==
    IF e.sticky_key = key
    THEN LET id == pixel_id(e.raster, e.cursor.pos)
             a  == activate(e.id_table, e.active, id)
         IN IF id = NoId THEN Handled("panic", e)
            ELSE IF a.result # "ok" THEN Handled("err", e)
            ELSE Handled("panic", [e EXCEPT !.active = a.active])
    ELSE IF e.sticky_key # NoKey THEN Handled("ok", [e EXCEPT !.sticky_key = NoKey])
    ELSE Handled("ok", [e EXCEPT !.sticky_key = key])

\* command_p_shift_p: activate the node under the cursor, paste a clone of
\* the clipboard below ("p") or above ("P") it, render, and put the cursor on
\* the pasted root's line at the column it had
command_p_shift_p(e, key) ==
    LET id == pixel_id(e.raster, e.cursor.pos)
        a  == activate(e.id_table, e.active, id)
    IN IF id = NoId THEN Handled("panic", e)
       ELSE IF a.result # "ok" THEN Handled("err", e)
       ELSE IF e.clipboard = NoSubtree THEN Handled("err", [e EXCEPT !.active = a.active])
       ELSE The({ The({ IF s.result # "ok" THEN Handled("panic", e1)
                        ELSE The({ IF rr.result # "ok" THEN Handled(rr.result, e1)
                                   ELSE The({ IF ~is_in_bounds(pos, rr.raster.max)
                                                 \/ f.result = "panic"
                                              THEN Handled("panic", e1)
                                              ELSE IF f.result # "ok"
                                              THEN Handled("err", e1)
                                              ELSE Handled("ok",
                                                      [e1 EXCEPT
                                                          !.raster = rr.raster,
                                                          !.cursor = new_command(f.pos),
                                                          !.sticky_key = NoKey])
                                              : pos \in {<<rr.cursor_pos[1],
                                                           e.cursor.pos[2]>>},
                                                f \in {find_left_text(
                                                          rr.raster,
                                                          <<rr.cursor_pos[1],
                                                            e.cursor.pos[2]>>,
                                                          e.cursor.pos[2])} })
                                   : rr \in {editor_render(e1, 0)} })
                        : e1 \in {[e EXCEPT !.heap = s.heap, !.id_table = s.id_table,
                                             !.active = s.active,
                                             !.gen_current = s.gen_current]} })
                  : s \in {insert_subtree(e.heap, e.id_table, a.active, e.gen_current,
                                          e.clipboard,
                                          IF key = "p" THEN Below ELSE Above)} })

\* command_u: nothing to undo, or the last item popped from the log.  A
\* HistoryItem::Tree is pasted back: activate(sibling) and
\* insert_subtree(tree, true), or activate(parent), insert_subtree(tree, true)
\* and indent_as_first (Tree::indent(true)); then the render, and the cursor
\* of the item.  A HistoryItem::Text is todo!().
command_u(e) ==
    IF e.history = <<>> THEN Handled("ok", [e EXCEPT !.sticky_key = NoKey])
    ELSE The({
        IF item.kind = "Text" THEN Handled("panic", e1)
        ELSE The({
            IF a.result # "ok"
            THEN Handled("err",
                         [e1 EXCEPT !.heap = drop_unreachable(
                                        e.heap, e.id_table, e.root, e.active,
                                        Held(e.clipboard, e1.history))])
            ELSE The({
                IF s.result # "ok" THEN Handled("panic", e1)
                ELSE The({
                    The({ IF i.result # "ok" THEN Handled(i.result, e2)
                          ELSE The({ IF rr.result # "ok" THEN Handled(rr.result, e2)
                                     ELSE Handled("ok", [e2 EXCEPT
                                                            !.raster = rr.raster,
                                                            !.cursor = item.cursor,
                                                            !.sticky_key = NoKey])
                                     : rr \in {editor_render(e2, 0)} })
                          : e2 \in {[e1 EXCEPT !.heap = i.heap, !.id_table = s.id_table,
                                                !.active = s.active,
                                                !.gen_current = s.gen_current]} })
                    : i \in {IF item.sibling = NoId THEN indent(s.heap, s.active, TRUE)
                             ELSE [result |-> "ok", heap |-> s.heap]} })
                : s \in {insert_subtree(e.heap, e.id_table, a.active, e.gen_current,
                                        item.tree, Below)} })
            : a \in {activate(e.id_table, e.active,
                              IF item.sibling # NoId THEN item.sibling
                              ELSE item.parent)} })
        : item \in {e.history[Len(e.history)]},
          e1 \in {[e EXCEPT !.history = SubSeq(e.history, 1, Len(e.history) - 1)]} })

\* the text insert_arrow_keys writes: " USE VIM KEYBINDINGS YOU PLEB "
ARROW_KEYS_TEXT ==
    <<32, 85, 83, 69, 32, 86, 73, 77, 32, 75, 69, 89, 66, 73, 78,
      68, 73, 78, 71, 83, 32, 89, 79, 85, 32, 80, 76, 69, 66, 32>>

\* insert_arrow_keys: push_str at the end of the active content, whatever
\* the cursor's offset, which is kept
insert_arrow_keys(e) ==
    render_and_make_insert_output(
        [e EXCEPT !.heap[e.active].content = @ \o ARROW_KEYS_TEXT], e.cursor.offset)

\* ---- the Editor as a state machine -----------------------------------------
\* the windows Editor::new returns on
EditorWindows ==
    {max \in WindowSizes :
        tree_render(max, Tree_new(GenFirst).heap, Tree_new(GenFirst).root, GenFirst, 0).result
            = "ok"}

\* Editor::new(win)
InitEditor ==
    /\ TreeStart(GenFirst)
    /\ \E max \in EditorWindows :
       \E rr \in {tree_render(max, Tree_new(GenFirst).heap, Tree_new(GenFirst).root,
                              GenFirst, 0)} :
          /\ raster = rr.raster
          /\ cursor = InsertState(rr.cursor_pos, 0)
    /\ last_arg = 0
    /\ sticky_key = NoKey
    /\ browser = NoPoint
    /\ frame = NoFrame
    /\ last_op = "Editor::new"
    /\ last_result = "ok"

EditorNow ==
    Editor(heap, id_table, root, active, gen_current, raster, cursor, sticky_key,
           clipboard, history)

\* Editor::update(key, win) with the handler's outcome: absorb_handler_output
\* on Ok; a panic ends the process with nothing more to observe; a render
\* that does not return is no step
Update(key, out) ==
    /\ out.result # "hang"
    /\ \E e \in {IF out.result = "panic" THEN EditorNow ELSE out.e} :
          /\ heap' = e.heap
          /\ id_table' = e.id_table
          /\ active' = e.active
          /\ gen_current' = e.gen_current
          /\ raster' = e.raster
          /\ cursor' = e.cursor
          /\ sticky_key' = e.sticky_key
          /\ clipboard' = e.clipboard
          /\ history' = e.history
    /\ panicked' = (out.result = "panic")
    /\ Returned(key, 0, out.result)
    /\ UNCHANGED <<root, browser, frame>>

InsertMode == ~panicked /\ ~is_command(cursor)

CommandMode == ~panicked /\ is_command(cursor)

\* a key without an insert handler is pressed: the letter a, whose name as
\* Window::getch gives it is the one char 'a'
KeyChar ==
    /\ InsertMode
    /\ Len(heap[active].content) < MaxContent
    /\ \E out \in {insert_key(EditorNow, <<97>>)} : Update("a", out)

KeyTab == InsertMode /\ \E out \in {insert_tab(EditorNow)} : Update("^I", out)

KeyShiftTab == InsertMode /\ \E out \in {insert_shift_tab(EditorNow)} : Update("KEY_BTAB", out)

KeyEnter ==
    /\ InsertMode
    /\ gen_current <= MaxBuildId
    /\ \E out \in {insert_enter(EditorNow)} : Update("^J", out)

KeyBackspace ==
    /\ InsertMode
    /\ \E out \in {insert_backspace(EditorNow)} :
       \E key \in {"KEY_BACKSPACE", "^?"} : Update(key, out)

KeyControlC == InsertMode /\ \E out \in {insert_control_c(EditorNow)} : Update("^C", out)

KeyI == CommandMode /\ \E out \in {command_i(EditorNow)} : Update("i", out)

KeyHL ==
    /\ CommandMode
    /\ \E key \in {"h", "l"} : \E out \in {command_hl(EditorNow, key)} : Update(key, out)

KeyJK ==
    /\ CommandMode
    /\ \E key \in {"j", "k"} :
       \E out \in {command_jk_absorbed(EditorNow, key)} : Update(key, out)

KeyBWE ==
    /\ CommandMode
    /\ \E key \in {"b", "w", "e"} :
       \E out \in {command_bwe(EditorNow, key)} : Update(key, out)

KeyShiftA == CommandMode /\ \E out \in {command_shift_a(EditorNow)} : Update("A", out)

KeyO ==
    /\ CommandMode
    /\ gen_current <= MaxBuildId
    /\ \E key \in {"o", "O"} :
       \E out \in {command_o(EditorNow, IF key = "o" THEN Below ELSE Above)} :
          Update(key, out)

KeyDY ==
    /\ CommandMode
    /\ \E key \in {"d", "y"} : \E out \in {command_dy(EditorNow, key)} : Update(key, out)

KeyP ==
    /\ CommandMode
    /\ \E key \in {"p", "P"} :
       \E out \in {command_p_shift_p(EditorNow, key)} : Update(key, out)

KeyU == CommandMode /\ \E out \in {command_u(EditorNow)} : Update("u", out)

KeyArrow ==
    /\ InsertMode
    /\ \E out \in {insert_arrow_keys(EditorNow)} :
       \E key \in {"KEY_LEFT", "KEY_RIGHT", "KEY_UP", "KEY_DOWN"} : Update(key, out)

NextEditor ==
    \/ KeyChar
    \/ KeyTab
    \/ KeyShiftTab
    \/ KeyEnter
    \/ KeyBackspace
    \/ KeyControlC
    \/ KeyArrow
    \/ KeyI
    \/ KeyHL
    \/ KeyJK
    \/ KeyBWE
    \/ KeyShiftA
    \/ KeyO
    \/ KeyDY
    \/ KeyP
    \/ KeyU

SpecEditor == InitEditor /\ [][NextEditor]_vars

\* SpecContent: bullets are made, written to (an empty bullet gets its first
\* character) and moved
NextContent ==
    \/ (gen_current <= MaxBuildId + 1 /\ CreateSibling)
    \/ Indent
    \/ Unindent
    \/ Activate
    \/ (heap[active].content = <<>> /\ GetMutActiveContent
           /\ Len(heap'[active].content) = 1)

SpecContent == Init /\ [][NextContent]_vars

\* ---- what the claims speak about ----------------------------------------
ChildSet(h, n) == {h[n].children[i] : i \in 1..Len(h[n].children)}

\* n and everything below it, following child lists only
RECURSIVE Below_(_, _)
Below_(h, S) ==
    LET T == S \cup UNION {ChildSet(h, n) : n \in S}
    IN IF T = S THEN S ELSE Below_(h, T)

SubtreeOf(h, n) == Below_(h, {n})

TreeNodes(h, r) == SubtreeOf(h, r)

Occurrences(v, x) == Cardinality({i \in 1..Len(v) : v[i] = x})

IndexIn(v, x) == CHOOSE i \in 1..Len(v) : v[i] = x

\* the sibling right after / right before n in its parent's child list
NextSibling(h, n) ==
    LET v == h[h[n].parent].children
        i == IndexIn(v, n)
    IN IF i < Len(v) THEN v[i + 1] ELSE NoLink

PrevSibling(h, n) ==
    LET v == h[h[n].parent].children
        i == IndexIn(v, n)
    IN IF i > 1 THEN v[i - 1] ELSE NoLink

Called(op, res) == last_op' = op /\ last_result' = res

\* C1: in every state reachable through the public Tree operations there is
\* exactly one active node, it is a node of the tree and it is not the root
\* (identity 0).
C1_ActiveIsNotRoot ==
    /\ active \in TreeNodes(heap, root)
    /\ active # root
    /\ heap[active].id # RootId

\* C2: with an identity source that never returns the same integer twice, no
\* two nodes reachable from the root (the root included) have the same
\* identity.
C2_IdentitiesUnique ==
    \A a, b \in TreeNodes(heap, root) : a # b => heap[a].id # heap[b].id

\* C3: every non-root node reachable from the root has a parent reference,
\* that parent's child list contains the node exactly once, and no other
\* node's child list contains it.
C3_ParentChildConsistent ==
    \A n \in TreeNodes(heap, root) \ {root} :
        /\ heap[n].parent # NoLink
        /\ heap[n].parent \in TreeNodes(heap, root)
        /\ Occurrences(heap[heap[n].parent].children, n) = 1
        /\ \A m \in 1..Len(heap) :
              m # heap[n].parent => Occurrences(heap[m].children, n) = 0

C3_Witness ==
    /\ last_op = "unindent" /\ last_result = "ok"
    /\ \E n \in TreeNodes(heap, root) \ {root} : heap[n].parent # root
    /\ Len(heap[root].children) >= 2

\* C4: the root always has at least one child, and delete() called when the
\* active node is the only child of the root is rejected with an error.
C4_RootKeepsAChild ==
    /\ [](Len(heap[root].children) >= 1)
    /\ [][(/\ last_op' = "delete"
           /\ heap[active].parent = root
           /\ heap[root].children = <<active>>)
          => (last_result' = "err" /\ heap'[root].children = <<active>>)]_vars

C4_Witness ==
    /\ last_op = "delete" /\ last_result = "err"
    /\ heap[root].children = <<active>>
    /\ Len(heap[active].children) >= 1

\* C5: a Tree operation that returns an error leaves the tree exactly as it
\* was before the call: same child lists, same parent references, same
\* identity table and same active node.
C5_ErrorLeavesTreeUnchanged ==
    [][last_result' = "err" =>
          (/\ last_op' \in {"indent", "unindent", "delete", "activate"}
           /\ heap' = heap
           /\ id_table' = id_table
           /\ active' = active
           /\ root' = root)]_vars

C5_Witness ==
    /\ last_op = "unindent" /\ last_result = "err"
    /\ Len(heap[root].children) >= 2
    /\ Len(heap[active].children) >= 1

\* C6: no public Tree operation, called in any order on a tree built by
\* Tree::new, aborts the process: each call succeeds or returns an error.
C6_NeverPanics == ~panicked

\* C7: when delete() succeeds the new active node is the deleted node's
\* below sibling if it had one, otherwise its above sibling if it had one,
\* otherwise its parent, which is then not the root.
C7_DeleteSuccessor ==
    [][Called("delete", "ok") =>
          LET below == NextSibling(heap, active)
              above == PrevSibling(heap, active)
          IN IF below # NoLink THEN active' = below
             ELSE IF above # NoLink THEN active' = above
             ELSE active' = heap[active].parent /\ active' # root]_vars

\* the end of the scenario root -> [A -> [B, C]]: B and C deleted, A active
C7_Witness ==
    /\ last_op = "delete" /\ last_result = "ok"
    /\ heap[root].children = <<active>>
    /\ heap[active].children = <<>>
    /\ gen_current = GenFirst + 3

\* C8: after a successful delete() the deleted node and all its descendants
\* are unreachable from the root and activate fails for each of their
\* identities, while the identity of every remaining node still activates
\* that node.
C8_DeleteForgetsSubtree ==
    [][Called("delete", "ok") =>
          (/\ \A d \in SubtreeOf(heap, active) :
                 /\ d \notin TreeNodes(heap', root')
                 /\ activate(id_table', active', heap[d].id).result = "err"
           /\ \A n \in TreeNodes(heap', root') :
                 /\ n \in TreeNodes(heap, root)
                 /\ heap'[n].id = heap[n].id
                 /\ activate(id_table', active', heap'[n].id).result = "ok"
                 /\ activate(id_table', active', heap'[n].id).active = n
           /\ TreeNodes(heap', root') =
                 TreeNodes(heap, root) \ SubtreeOf(heap, active))]_vars

\* a delete that took a node together with a child and a grandchild
C8_Witness ==
    /\ last_op = "delete" /\ last_result = "ok"
    /\ Len(last_arg) = 3
    /\ \E n \in 1..Len(heap) :
          /\ heap[n].id = last_arg[3]
          /\ n \notin TreeNodes(heap, root)
    /\ Cardinality(TreeNodes(heap, root)) = 2

\* C9: create_sibling() adds exactly one new node, with an identity freshly
\* drawn from the identity source and empty content, to the child list of
\* the active node's parent right after the active node; every other child
\* list is unchanged and the new node becomes the active node.
C9_CreateSibling ==
    [][Called("create_sibling", "ok") =>
          LET p   == heap[active].parent
              v   == heap[p].children
              i   == IndexIn(v, active)
              new == active'
          IN /\ new \notin 1..Len(heap)
             /\ Len(heap') = Len(heap) + 1
             /\ TreeNodes(heap', root') = TreeNodes(heap, root) \cup {new}
             /\ heap'[new].id = gen_current
             /\ gen_current' = gen_current + 1
             /\ \A n \in 1..Len(heap) : heap[n].id # heap'[new].id
             /\ heap'[new].content = <<>>
             /\ heap'[new].children = <<>>
             /\ heap'[new].parent = p
             /\ heap'[p].children =
                   SubSeq(v, 1, i) \o <<new>> \o SubSeq(v, i + 1, Len(v))
             /\ \A n \in 1..Len(heap) :
                   n # p => heap'[n].children = heap[n].children
             /\ activate(id_table', active', heap'[new].id).active = new]_vars

C9_Witness ==
    /\ last_op = "create_sibling" /\ last_result = "ok"
    /\ LET v == heap[heap[active].parent].children
           i == IndexIn(v, active)
       IN i >= 3 /\ i < Len(v)

\* C10: create_sibling_above() adds exactly one new node to the child list
\* of the active node's parent right before the active node, and the new
\* node becomes the active node.
C10_CreateSiblingAbove ==
    [][Called("create_sibling_above", "ok") =>
          LET p   == heap[active].parent
              v   == heap[p].children
              i   == IndexIn(v, active)
              new == Len(heap) + 1
          IN /\ Len(heap') = Len(heap) + 1
             /\ heap'[p].children =
                   SubSeq(v, 1, i - 1) \o <<new>> \o SubSeq(v, i, Len(v))
             /\ active' = new]_vars

\* C11: indent(first) succeeds exactly when the active node has a sibling S
\* right before it in its parent's child list; afterwards the active node is
\* no longer in its former parent's child list, its parent is S, and it is
\* the first child of S when first is true and the last child of S when
\* first is false.
C11_Indent ==
    [][last_op' = "indent" =>
          LET p == heap[active].parent
              S == IF p = NoLink THEN NoLink ELSE PrevSibling(heap, active)
          IN /\ (last_result' = "ok") <=> (S # NoLink)
             /\ last_result' = "ok" =>
                   /\ Occurrences(heap'[p].children, active) = 0
                   /\ heap'[active].parent = S
                   /\ heap'[S].children =
                         IF last_arg' THEN <<active>> \o heap[S].children
                                      ELSE heap[S].children \o <<active>>]_vars

\* indent(true) under a sibling that already had a child
C11_Witness ==
    /\ last_op = "indent" /\ last_result = "ok" /\ last_arg = TRUE
    /\ heap[active].parent # NoLink
    /\ Len(heap[heap[active].parent].children) >= 2
    /\ Head(heap[heap[active].parent].children) = active

\* C12: unindent() succeeds exactly when the active node's parent P is not
\* the root; afterwards the active node is no longer in P's child list, its
\* parent is P's parent G, and it sits in G's child list right after P.
C12_Unindent ==
    [][last_op' = "unindent" =>
          LET P == heap[active].parent
              G == IF P = NoLink THEN NoLink ELSE heap[P].parent
          IN /\ (last_result' = "ok") <=> (P # NoLink /\ P # root)
             /\ last_result' = "ok" =>
                   /\ Occurrences(heap'[P].children, active) = 0
                   /\ heap'[active].parent = G
                   /\ LET v == heap[G].children
                          i == IndexIn(v, P)
                      IN heap'[G].children =
                            SubSeq(v, 1, i) \o <<active>> \o SubSeq(v, i + 1, Len(v))]_vars

\* the former parent kept other children and was not the last child of G
C12_Witness ==
    /\ last_op = "unindent" /\ last_result = "ok"
    /\ heap[active].parent # NoLink
    /\ NextSibling(heap, active) # NoLink
    /\ PrevSibling(heap, active) # NoLink
    /\ Len(heap[PrevSibling(heap, active)].children) >= 1

\* C13: for every reachable tree whose active node has an above sibling,
\* indent(false) followed at once by unindent() succeeds twice and gives back
\* every child list (order included) and every parent reference; neither
\* call moves the active node.
C13_IndentUnindentRoundTrip ==
    /\ []((/\ ~panicked
           /\ heap[active].parent # NoLink
           /\ PrevSibling(heap, active) # NoLink)
          => LET r1 == indent(heap, active, FALSE)
                 r2 == unindent(r1.heap, active)
             IN /\ r1.result = "ok"
                /\ r1.heap # heap
                /\ r2.result = "ok"
                /\ r2.heap = heap)
    /\ [][last_op' \in {"indent", "unindent"} =>
             (active' = active /\ root' = root /\ id_table' = id_table)]_vars

\* back from a round trip: the above sibling has a child of its own, the
\* active node has one too and is followed by a further sibling
C13_Witness ==
    /\ last_op = "unindent" /\ last_result = "ok"
    /\ heap[active].parent = root
    /\ PrevSibling(heap, active) # NoLink
    /\ Len(heap[PrevSibling(heap, active)].children) >= 1
    /\ indent(heap, active, FALSE).heap[PrevSibling(heap, active)].children[2] = active

\* C20: a post-order traversal started at node n yields every node of n's
\* subtree exactly once, each node after all of its descendants, the subtrees
\* of siblings in child-list order, and n itself last.
C20_PostOrder ==
    \A n \in TreeNodes(heap, root) :
        LET out == post_order(heap, n)
            sub == SubtreeOf(heap, n)
        IN /\ {out[i] : i \in 1..Len(out)} = sub
           /\ Len(out) = Cardinality(sub)
           /\ out[Len(out)] = n
           /\ \A m \in sub : \A d \in SubtreeOf(heap, m) \ {m} :
                 IndexIn(out, d) < IndexIn(out, m)
           /\ \A m \in sub : \A i, j \in 1..Len(heap[m].children) :
                 i < j => \A a \in SubtreeOf(heap, heap[m].children[i]),
                             b \in SubtreeOf(heap, heap[m].children[j]) :
                             IndexIn(out, a) < IndexIn(out, b)

\* root -> [A -> [B -> [C], D]]: two sibling subtrees, the first one deeper
C20_Witness ==
    /\ Len(heap[root].children) = 1
    /\ LET A == heap[root].children[1]
       IN /\ Len(heap[A].children) = 2
          /\ Len(heap[heap[A].children[1]].children) = 1
          /\ post_order(heap, root) =
                <<heap[heap[A].children[1]].children[1], heap[A].children[1],
                  heap[A].children[2], A, root>>

\* a node with everything below it, identities included
RECURSIVE Labelled(_, _)
Labelled(h, n) ==
    [id |-> h[n].id, content |-> h[n].content,
     children |-> [i \in 1..Len(h[n].children) |-> Labelled(h, h[n].children[i])]]

\* how often n occurs in all the child lists together
InChildLists(h, n) ==
    Cardinality({<<m, i>> \in (1..Len(h)) \X (1..Len(h)) :
                    i <= Len(h[m].children) /\ h[m].children[i] = n})

\* C14: insert_subtree(subtree, dir) places the subtree's root in the child
\* list of the active node's parent right after (Below) or right before
\* (Above) the previously active node, sets the inserted root's parent
\* reference to that parent, and makes the inserted root, under its new
\* identity, the active node.
C14_InsertSubtree ==
    [][Called("insert_subtree", "ok") =>
          LET R == clipboard.root
              p == heap[active].parent
              v == heap[p].children
          IN /\ \E i \in 1..Len(v) :
                  /\ v[i] = active
                  /\ heap'[p].children =
                        IF last_arg' = Below
                        THEN SubSeq(v, 1, i) \o <<R>> \o SubSeq(v, i + 1, Len(v))
                        ELSE SubSeq(v, 1, i - 1) \o <<R>> \o SubSeq(v, i, Len(v))
             /\ heap'[R].parent = p
             /\ active' = R
             /\ heap'[R].id \in gen_current..(gen_current' - 1)
             /\ activate(id_table', active, heap'[R].id).active = R]_vars

\* a subtree pasted above a node that is not the first child: the inserted
\* root now sits between two siblings
C14_Witness ==
    /\ last_op = "insert_subtree" /\ last_result = "ok" /\ last_arg = Above
    /\ clipboard.root = active
    /\ heap[active].parent # NoLink
    /\ NextSibling(heap, active) # NoLink
    /\ PrevSibling(heap, active) # NoLink

\* C15: pasting the same clipboard subtree two or more times, each paste a
\* clone of the stored Subtree, makes a separate set of nodes per paste:
\* afterwards no two nodes of the tree share an identity, no node is in two
\* child lists, and a paste leaves the identities of the nodes already in
\* the tree, those of earlier pastes included, as they were.
C15_PasteTwice ==
    [][Called("insert_subtree", "ok") =>
          (/\ \A n \in TreeNodes(heap, root) : heap'[n].id = heap[n].id
           /\ \A a, b \in TreeNodes(heap', root') : a # b => heap'[a].id # heap'[b].id
           /\ \A n \in TreeNodes(heap', root') \ {root'} :
                 InChildLists(heap', n) = 1)]_vars

\* C16: the identity remap (make_unique) gives every node of a subtree a
\* distinct identity, the identities after the remap are disjoint from those
\* before it, and remapping a further copy of the same subtree (a clone of
\* the Subtree, or a copy of its nodes) yields a set disjoint from both.
C16_MakeUniqueDisjoint ==
    /\ []((clipboard # NoSubtree /\ tree_shaped(heap)) =>
            LET N  == SubtreeOf(heap, clipboard.root)
                S0 == {heap[n].id : n \in N}
                u1 == make_unique(heap, clipboard, gen_current)
                S1 == {u1.heap[n].id : n \in N}
                u2 == make_unique(u1.heap, clipboard, u1.gen_current)
                S2 == {u2.heap[n].id : n \in N}
                c  == make_unique_subtree(u1.heap, clipboard.root)
                u3 == make_unique(c.heap, Subtree(c.link), u1.gen_current)
                S3 == {u3.heap[n].id : n \in SubtreeOf(u3.heap, c.link)}
            IN /\ Cardinality(S1) = Cardinality(N)
               /\ S1 \cap S0 = {}
               /\ Cardinality(S2) = Cardinality(N)
               /\ S2 \cap (S0 \cup S1) = {}
               /\ Cardinality(S3) = Cardinality(N)
               /\ S3 \cap (S0 \cup S1) = {})
    /\ [][Called("insert_subtree", "ok") =>
             LET N == SubtreeOf(heap, clipboard.root)
             IN /\ Cardinality({heap'[n].id : n \in N}) = Cardinality(N)
                /\ {heap'[n].id : n \in N} \cap {heap[n].id : n \in 1..Len(heap)} = {}]_vars

\* a subtree of two nodes has just been remapped to the ids 3 and 4
C16_Witness ==
    /\ last_op = "insert_subtree" /\ last_result = "ok"
    /\ Cardinality(SubtreeOf(heap, clipboard.root)) = 2
    /\ {heap[n].id : n \in SubtreeOf(heap, clipboard.root)} = {GenFirst + 2, GenFirst + 3}
    /\ gen_current = GenFirst + 4

\* C17: insert_subtree(get_subtree(), dir) right after the extraction adds
\* next to the active node a subtree isomorphic to the active node's subtree
\* (same shape, child order and content, all identities new) and leaves the
\* original subtree's shape, identities and content unchanged.
C17_CopyPasteIsomorphic ==
    [][/\ last_op' = "get_subtree" => last_result' = "ok"
       /\ (last_op = "get_subtree" /\ last_op' = "insert_subtree") =>
             LET R == clipboard.root
             IN /\ last_result' = "ok"
                /\ active' = R
                /\ active = (IF last_arg' = Below THEN PrevSibling(heap', R)
                                                  ELSE NextSibling(heap', R))
                /\ document(heap', R) = document(heap, active)
                /\ \A n \in SubtreeOf(heap', R) :
                      /\ n \notin TreeNodes(heap, root)
                      /\ heap'[n].id >= gen_current
                /\ Labelled(heap', active) = Labelled(heap, active)]_vars

\* C18: undo of a delete restores the document as it was before the delete:
\* the extracted subtree goes back right after its recorded above sibling
\* S, or as the first child of its recorded parent P when it had no above
\* sibling (P may be the root), with the same shape, child order and content.
\* The second "d" on a drawn node takes the node out and records its
\* subtree, P, S and the cursor; "u" puts the subtree of the last record
\* back at that place, unchanged.
C18_UndoRestoresDocument ==
    [][/\ (CommandMode /\ sticky_key = "d" /\ last_op' = "d"
           /\ pixel_id(raster, cursor.pos) # NoId) =>
             LET n == get_node(id_table, pixel_id(raster, cursor.pos))
                 S == PrevSibling(heap, n)
             IN /\ last_result' = "ok"
                /\ Len(history') = Len(history) + 1
                /\ \E tree \in {history'[Len(history')].tree} :
                      /\ history' = Append(history,
                                           HistoryItem(heap[heap[n].parent].id,
                                                       IF S = NoLink THEN NoId
                                                       ELSE heap[S].id,
                                                       tree, cursor))
                      /\ document(heap', tree.root) = document(heap, n)
       /\ (CommandMode /\ history # <<>> /\ last_op' = "u") =>
             LET item == history[Len(history)]
                 R    == item.tree.root
             IN /\ item # HistoryText
                /\ last_result' = "ok"
                /\ IF item.sibling # NoId
                   THEN PrevSibling(heap', R) = get_node(id_table, item.sibling)
                   ELSE /\ heap'[R].parent = get_node(id_table, item.parent)
                        /\ heap'[heap'[R].parent].children[1] = R
                /\ document(heap', R) = document(heap, R)]_vars

\* C19: get_subtree() returns a detached copy of the active node and all its
\* descendants and leaves the source tree unchanged (child lists,
\* identities, content, active node, identity table); the copy shares no
\* node with the source, so a later change to either does not alter the
\* other.
C19_GetSubtreeDetached ==
    [][last_op' = "get_subtree" =>
          (/\ last_result' = "ok"
           /\ clipboard' # NoSubtree
           /\ Labelled(heap', clipboard'.root) = Labelled(heap, active)
           /\ SubtreeOf(heap', clipboard'.root) \cap TreeNodes(heap', root') = {}
           /\ \A n \in TreeNodes(heap, root) : heap'[n] = heap[n]
           /\ active' = active
           /\ root' = root
           /\ id_table' = id_table)]_vars

\* the child indices that lead from n down to m
RECURSIVE PathFrom(_, _, _)
PathFrom(h, n, m) ==
    IF m = n THEN <<>>
    ELSE Append(PathFrom(h, n, h[m].parent), IndexIn(h[h[m].parent].children, m))

\* p comes before q in document order (p, q of equal length)
PathBefore(p, q) ==
    \E k \in 1..Len(p) : p[k] < q[k] /\ \A j \in 1..(k - 1) : p[j] = q[j]

\* C21: a level-order traversal started at node n yields every node of n's
\* subtree exactly once, n first, in non-decreasing depth, and nodes of equal
\* depth in document order (siblings in child-list order, children of an
\* earlier parent before children of a later parent).
C21_LevelOrder ==
    \A n \in TreeNodes(heap, root) :
        LET out == level(heap, n)
            sub == SubtreeOf(heap, n)
        IN /\ {out[i] : i \in 1..Len(out)} = sub
           /\ Len(out) = Cardinality(sub)
           /\ out[1] = n
           /\ \A i, j \in 1..Len(out) :
                 i < j =>
                    LET p == PathFrom(heap, n, out[i])
                        q == PathFrom(heap, n, out[j])
                    IN \/ Len(p) < Len(q)
                       \/ (Len(p) = Len(q) /\ PathBefore(p, q))

\* root -> [A -> [C], B -> [D]]: the children of two parents of equal depth;
\* level order differs from the order a depth-first walk gives
C21_Witness ==
    /\ Len(heap[root].children) = 2
    /\ LET A == heap[root].children[1]
           B == heap[root].children[2]
       IN /\ Len(heap[A].children) = 1
          /\ Len(heap[B].children) = 1
          /\ level(heap, root) =
                <<root, A, B, heap[A].children[1], heap[B].children[1]>>

\* C22: for bounds with cols > 0, every position (r, c) and every signed
\* offset d, linear_move returns (r + floor((c + d) / cols), (c + d) mod cols)
\* when that row lies in [0, rows) and None otherwise, with floor division and
\* a non-negative modulo also for negative c + d; a returned column lies in
\* [0, cols).
C22_LinearMove ==
    last_op = "linear_move" =>
        LET rows == last_arg.max[1]
            cols == last_arg.max[2]
            x    == last_arg.pos[2] + last_arg.offset
            row  == last_arg.pos[1] + (x \div cols)
            col  == x % cols
        IN /\ last_result = IF 0 <= row /\ row < rows THEN <<row, col>> ELSE NoPoint
           /\ last_result # NoPoint => 0 <= last_result[2] /\ last_result[2] < cols

\* a move to the left across a row boundary, where c + d is negative and not
\* a multiple of cols
C22_Witness ==
    /\ last_op = "linear_move"
    /\ last_arg.pos[2] + last_arg.offset < 0
    /\ (last_arg.pos[2] + last_arg.offset) % last_arg.max[2] # 0
    /\ last_result # NoPoint

\* the position lies in [0, rows) x [0, cols) of the Raster
InGrid(pos) ==
    /\ 0 <= pos[1] /\ pos[1] < raster.max[1]
    /\ 0 <= pos[2] /\ pos[2] < raster.max[2]

BrowserMotions == {"go_while", "go_while_or_count", "go_until_count", "go_no_wrap"}

\* C23: every Browser that exists has an in-bounds position: Raster::browser
\* fails for a position outside [0, rows) x [0, cols), and every Browser that
\* go_while, go_while_or_count, go_until_count or go_no_wrap returns, after
\* any chain of such motions, has 0 <= row < rows and 0 <= col < cols.
C23_BrowserInBounds ==
    /\ browser # NoPoint => InGrid(browser)
    /\ last_op = "browser" /\ ~InGrid(last_arg) => last_result # "ok"
    /\ last_op \in BrowserMotions /\ last_result = "ok" => InGrid(browser)

\* a motion that moved the Browser onto the last cell of a grid with more than
\* one row and more than one column
C23_Witness ==
    /\ last_op \in BrowserMotions
    /\ last_result = "ok"
    /\ raster.max[1] > 1 /\ raster.max[2] > 1
    /\ browser = <<raster.max[1] - 1, raster.max[2] - 1>>

\* the place of a cell in row-major (reading) order
Linear(pos) == pos[1] * raster.max[2] + pos[2]

GridCells == {pos \in (0..(raster.max[1] - 1)) \X (0..(raster.max[2] - 1)) : TRUE}

\* the cells after `from` along dir (Left: before it in reading order) that
\* hold a state for which the predicate is false
Stops(from, dir, pred) ==
    {q \in GridCells :
        /\ IF dir = Left THEN Linear(q) < Linear(from) ELSE Linear(q) > Linear(from)
        /\ get(raster, q) # NoPixel
        /\ ~predicate(pred, get(raster, q))}

\* the cell of a non-empty set S nearest to `from` in reading order
Nearest(from, S) ==
    CHOOSE q \in S : \A o \in S :
        Abs(Linear(q) - Linear(from)) <= Abs(Linear(o) - Linear(from))

\* what go_while does once it has left the start cell: it stops on the first
\* cell for which the predicate is false, and fails at the grid edge
StopsAtFirstFalse ==
    LET S == Stops(last_arg.from, last_arg.dir, last_arg.pred)
    IN IF S = {} THEN last_result = ErrPastBounds /\ browser = last_arg.from
       ELSE last_result = "ok" /\ browser = Nearest(last_arg.from, S)

\* C24 as stated: go_while(Left|Right, predicate) takes a step only while the
\* cell the browser occupies before that step satisfies the predicate: from a
\* start cell that does not satisfy the predicate it returns success without
\* moving, and otherwise it stops at the first cell for which the predicate is
\* false.
C24_TestsCellBeforeStep ==
    last_op = "go_while" /\ last_arg.dir \in {Left, Right} =>
        LET start == get(raster, last_arg.from)
        IN IF start # NoPixel /\ ~predicate(last_arg.pred, start)
           THEN last_result = "ok" /\ browser = last_arg.from
           ELSE StopsAtFirstFalse

\* C24 amended: go_while(Left|Right, predicate) always takes one step first
\* and tests the cell it arrives on: whether or not the start cell satisfies
\* the predicate, it returns the first cell after the start position along the
\* direction that holds a state for which the predicate is false (a cell never
\* pushed is stepped over), and fails when the grid edge comes first.
C24_TestsCellAfterStep ==
    last_op = "go_while" /\ last_arg.dir \in {Left, Right} => StopsAtFirstFalse

\* go_while from a start cell for which the predicate is false, over a cell
\* for which it is true, onto the next cell for which it is false
C24_Witness ==
    /\ last_op = "go_while"
    /\ last_result = "ok"
    /\ get(raster, last_arg.from) # NoPixel
    /\ ~predicate(last_arg.pred, get(raster, last_arg.from))
    /\ Abs(Linear(browser) - Linear(last_arg.from)) = 2

\* the cells after `from` along dir (Left: before it in reading order) that
\* hold a state satisfying the predicate
Matches(from, dir, pred) ==
    {q \in GridCells :
        /\ IF dir = Left THEN Linear(q) < Linear(from) ELSE Linear(q) > Linear(from)
        /\ get(raster, q) # NoPixel
        /\ predicate(pred, get(raster, q))}

\* C25: go_until_count(dir, count, predicate), dir Left or Right, with
\* count >= 1 stops on the count-th cell after the start position, in wrapped
\* row-major order along dir, whose state satisfies the predicate, passing
\* over non-matching cells without counting them; with count = 0 it returns
\* the start position (in every direction); when fewer than count matching
\* cells lie between the start and the grid edge it fails.
C25_GoUntilCount ==
    last_op = "go_until_count" =>
        LET from == last_arg.from
            M    == Matches(from, last_arg.dir, last_arg.pred)
        IN IF last_arg.count = 0
           THEN last_result = "ok" /\ browser = from
           ELSE last_arg.dir \in {Left, Right} =>
                IF Cardinality(M) < last_arg.count
                THEN last_result # "ok" /\ browser = from
                ELSE /\ last_result = "ok"
                     /\ browser \in M
                     /\ Cardinality({q \in M : Abs(Linear(q) - Linear(from))
                                               <= Abs(Linear(browser) - Linear(from))})
                        = last_arg.count

\* the second matching cell is reached past a cell that does not match
C25_Witness ==
    /\ last_op = "go_until_count"
    /\ last_result = "ok"
    /\ last_arg.count = 2
    /\ Abs(Linear(browser) - Linear(last_arg.from)) = 3

\* C26: go_no_wrap(dir) moves exactly one cell by plain coordinate addition
\* ((0,-1), (0,1), (-1,0), (1,0) for Left, Right, Up, Down); when that cell
\* lies outside the grid, Left from column 0 and Right from the last column
\* included (no wrap to the adjacent row), it fails, and the position reached
\* before the failing step stays in the grid and unchanged.
C26_GoNoWrap ==
    last_op = "go_no_wrap" =>
        LET from   == last_arg.from
            target == CASE last_arg.dir = Left  -> <<from[1], from[2] - 1>>
                        [] last_arg.dir = Right -> <<from[1], from[2] + 1>>
                        [] last_arg.dir = Up    -> <<from[1] - 1, from[2]>>
                        [] last_arg.dir = Down  -> <<from[1] + 1, from[2]>>
        IN IF InGrid(target)
           THEN last_result = "ok" /\ browser = target
           ELSE last_result # "ok" /\ browser = from /\ InGrid(browser)

\* a step Left from column 0 of the second row, where a wrapping move would
\* have reached the row above: it fails and the Browser stays
C26_Witness ==
    /\ last_op = "go_no_wrap"
    /\ last_arg.dir = Left
    /\ last_arg.from = <<1, 0>>
    /\ last_result = ErrHitBounds
    /\ browser = <<1, 0>>

\* the cells after `from` along dir that hold a state
Populated(from, dir) ==
    {q \in GridCells :
        /\ IF dir = Left THEN Linear(q) < Linear(from) ELSE Linear(q) > Linear(from)
        /\ get(raster, q) # NoPixel}

\* the n cells of S nearest to `from` (all of S when it has fewer)
FirstN(from, S, n) ==
    {q \in S : Cardinality({o \in S : Abs(Linear(o) - Linear(from))
                                      <= Abs(Linear(q) - Linear(from))}) <= n}

\* a scan from `from` along Left or Right uses up a count >= 1 inside the
\* grid: `count` cells lie ahead and the predicate holds on each of them, so
\* it never resolves to false within the count
Exhausted(from, dir, count, pred) ==
    /\ count >= 1
    /\ dir \in {Left, Right}
    /\ LET F == FirstN(from, Populated(from, dir), count)
       IN /\ Cardinality(F) = count
          /\ \A q \in F : predicate(pred, get(raster, q))

\* C27 as stated: when a count-bounded search uses up its bound inside the
\* grid without the predicate resolving, the caller receives a failure, and
\* that failure is distinguishable from the out-of-bounds failure.
C27_ExhaustionFails ==
    /\ last_op = "go_while_or_count" =>
          (Exhausted(last_arg.from, last_arg.dir, last_arg.count, last_arg.pred)
              => last_result # "ok" /\ last_result # ErrPastBounds)

\* C27 amended: when go_while_or_count uses up its count inside the grid it
\* returns success, with the Browser on the cell where the count ran out; the
\* failure is the caller's: find_left_text returns "no text on target line"
\* exactly when its start cell and the cells of its leftward scan hold no
\* browsable state and the scan did not leave the grid, and that failure
\* differs from the out-of-bounds failure.
C27_ExhaustionReturnsOk ==
    /\ last_op = "go_while_or_count" =>
          (Exhausted(last_arg.from, last_arg.dir, last_arg.count, last_arg.pred)
              => /\ last_result = "ok"
                 /\ Abs(Linear(browser) - Linear(last_arg.from)) >= last_arg.count
                 /\ browser \in FirstN(last_arg.from,
                                       Populated(last_arg.from, last_arg.dir),
                                       last_arg.count))
    /\ last_op = "find_left_text" =>
          LET start == get(raster, last_arg.from)
          IN /\ last_result = ErrNoText
                <=> /\ start # NoPixel
                    /\ ~is_browsable(start)
                    /\ \/ last_arg.count = 0
                       \/ Exhausted(last_arg.from, Left, last_arg.count, "not_browsable")
             /\ ErrNoText # ErrPastBounds

\* go_while_or_count over two cells that both satisfy the predicate, with a
\* count of two, inside the grid
C27_Witness ==
    /\ last_op = "go_while_or_count"
    /\ last_arg.count = 2
    /\ Exhausted(last_arg.from, last_arg.dir, last_arg.count, last_arg.pred)
    /\ last_result = "ok"
    /\ Abs(Linear(browser) - Linear(last_arg.from)) = 2

\* C28: immediately after a grid is constructed for a rows x cols window and
\* before any cell is populated, reading any in-bounds position yields Empty.
C28_NewRasterIsEmpty ==
    raster.current = <<0, 0 - 1>> /\ raster.max[1] >= 1 /\ raster.max[2] >= 1 =>
        \A pos \in GridCells : get(raster, pos) = Empty

\* the cells of the Raster in row-major (reading) order, numbered from 0
CellIdx == 0..(raster.max[1] * raster.max[2] - 1)

CellAt(i) == get(raster, <<i \div raster.max[2], i % raster.max[2]>>)

\* the nodes tree_render draws: every node below the root
Rendered == TreeNodes(heap, root) \ {root}

\* the places of the Text cells that carry the identity id
TextCells(id) == {i \in CellIdx : CellAt(i).kind = "Text" /\ CellAt(i).id = id}

PlaceholderCells(id) == {i \in CellIdx : CellAt(i) = Placeholder(id)}

\* the Text cells of a node with content of length len: len of them, offsets
\* 0..len-1 once each and increasing in reading order, two neighbours either
\* adjacent or parted, after the last column of a row, by Filler cells of the
\* same node
TextRun(id, len) ==
    LET T == TextCells(id)
    IN /\ Cardinality(T) = len
       /\ \A o \in 0..(len - 1) : Cardinality({i \in T : CellAt(i).offset = o}) = 1
       /\ \A i, j \in T : i < j => CellAt(i).offset < CellAt(j).offset
       /\ \A i, j \in T :
             i < j /\ (\A k \in (i + 1)..(j - 1) : k \notin T) =>
                \/ j = i + 1
                \/ /\ i % raster.max[2] = raster.max[2] - 1
                   /\ \A k \in (i + 1)..(j - 1) : CellAt(k) = Filler(id)
       /\ PlaceholderCells(id) = {}

\* render_bullet's indentation_lvl of a rendered node: 0 for a child of the
\* root
RECURSIVE IndentationLvl(_)
IndentationLvl(n) ==
    IF heap[n].parent = root THEN 0 ELSE 1 + IndentationLvl(heap[n].parent)

\* the columns a row of width max[2] has for the node's text, to the right of
\* its indentation, its bullet and the blank after it
TextColumns(n, max) == max[2] - 2 * IndentationLvl(n) - 2

\* the rows the node's text takes, TextColumns cells a row; one row when
\* empty, for the Placeholder
TextRows(n, max) ==
    IF heap[n].content = <<>> THEN 1
    ELSE (str_len(heap[n].content) + TextColumns(n, max) - 1) \div TextColumns(n, max)

RECURSIVE RowsOf(_, _)
RowsOf(S, max) ==
    IF S = {} THEN 0
    ELSE LET n == CHOOSE x \in S : TRUE
         IN TextRows(n, max) + RowsOf(S \ {n}, max)

\* the window has room for the whole document: a column for every node's
\* text and a row for each of its lines
DocumentFits(max) ==
    /\ \A n \in Rendered : TextColumns(n, max) >= 1
    /\ RowsOf(Rendered, max) <= max[1]

\* the Grid's contract for the document rendered
RenderContract ==
    /\ \A n \in Rendered :
          IF heap[n].content # <<>>
          THEN TextRun(heap[n].id, str_len(heap[n].content))
          ELSE /\ Cardinality(PlaceholderCells(heap[n].id)) = 1
               /\ TextCells(heap[n].id) = {}
    /\ \A i \in CellIdx :
          \/ CellAt(i) = Empty
          \/ /\ CellAt(i).kind \in {"Bullet", "Filler", "Text", "Placeholder"}
             /\ \E n \in Rendered : CellAt(i).id = heap[n].id

\* C29: after a render, for every rendered node with non-empty content of
\* length n the grid holds exactly n Text cells carrying that node's identity,
\* with offsets 0..n-1 each exactly once and in increasing order along
\* row-major order, interrupted only at wrap points by Filler cells of the
\* same node; a node with empty content yields exactly one Placeholder cell;
\* and every cell that is not a Bullet, Filler, Text or Placeholder of some
\* node is Empty.  The render of a document the window has room for returns
\* its Grid, and the Grid of every render that returns is as said.
C29_RenderContract ==
    last_op = "tree_render" =>
        /\ DocumentFits(last_arg.max) => last_result = "ok"
        /\ last_result = "ok" => RenderContract

\* C30: vertical motion in command mode (j/k) preserves a remembered target
\* column across successive moves: a move onto a line that has no text at the
\* remembered column puts the cursor on the nearest text cell to its left on
\* that line and keeps the column remembered, so that a following move onto a
\* line that has text at the remembered column puts the cursor back on that
\* column.
C30_RememberedColumn ==
    [][ last_op' = "command_jk" /\ last_result' = "ok" /\ cursor # NoCursor =>
          LET row == cursor'.pos[1]
              col == cursor.col
          IN /\ cursor'.col = col
             /\ IF is_browsable(get(raster, <<row, col>>))
                THEN cursor'.pos = <<row, col>>
                ELSE /\ cursor'.pos[2] < col
                     /\ is_browsable(get(raster, cursor'.pos))
                     /\ \A c \in (cursor'.pos[2] + 1)..col :
                           ~is_browsable(get(raster, <<row, c>>))
      ]_vars

\* C32: on success, go_while(Left|Right, predicate) returns the nearest cell
\* strictly after the start position, in wrapped row-major order along the
\* direction, whose state makes the predicate false; it always moves at least
\* one cell, and the start cell's state is never passed to the predicate.
C32_GoWhileNearestFalse ==
    last_op = "go_while" /\ last_result = "ok" =>
        /\ last_arg.dir \in {Left, Right}
        /\ browser # last_arg.from
        /\ IF last_arg.dir = Left THEN Linear(browser) < Linear(last_arg.from)
           ELSE Linear(browser) > Linear(last_arg.from)
        /\ get(raster, browser) # NoPixel
        /\ ~predicate(last_arg.pred, get(raster, browser))
        /\ \A q \in GridCells :
              Abs(Linear(q) - Linear(last_arg.from)) < Abs(Linear(browser) - Linear(last_arg.from))
              /\ (Linear(q) < Linear(last_arg.from) <=> last_arg.dir = Left)
              /\ q # last_arg.from
              /\ get(raster, q) # NoPixel
              => predicate(last_arg.pred, get(raster, q))

\* from a text cell, scanning Left with "not text" lands on the adjacent text
\* cell
C32_Witness ==
    /\ last_op = "go_while"
    /\ last_result = "ok"
    /\ last_arg.dir = Left
    /\ last_arg.pred = "not_text"
    /\ is_text(get(raster, last_arg.from))
    /\ Linear(browser) = Linear(last_arg.from) - 1

\* the cell `d` cells after `from` along dir, in wrapped row-major order
CellAlong(from, dir, d) ==
    LET i == IF dir = Left THEN Linear(from) - d ELSE Linear(from) + d
    IN <<i \div raster.max[2], i % raster.max[2]>>

\* C33: go_while_or_count(dir, count, predicate) with count >= 1 moves k
\* cells with 1 <= k <= count: it stops at the first visited cell whose state
\* fails the predicate, or after exactly count cells when the first count-1
\* visited cells all satisfy it; with count = 0 it returns the start position
\* without moving.
C33_GoWhileOrCount ==
    last_op = "go_while_or_count" /\ last_result = "ok" =>
        LET from == last_arg.from
            k    == Abs(Linear(browser) - Linear(from))
        IN IF last_arg.count = 0 THEN browser = from
           ELSE /\ 1 <= k /\ k <= last_arg.count
                /\ browser = CellAlong(from, last_arg.dir, k)
                /\ \A d \in 1..(k - 1) :
                      predicate(last_arg.pred, get(raster, CellAlong(from, last_arg.dir, d)))
                /\ k < last_arg.count =>
                      ~predicate(last_arg.pred, get(raster, browser))

\* the direction opposite to a horizontal direction
Opposite(dir) == IF dir = Left THEN Right ELSE Left

\* C37: for a start cell that satisfies the predicate,
\* go_until_count(Right, n, predicate) followed by
\* go_until_count(Left, n, predicate) returns to the start position whenever
\* the first call succeeds (n >= 1), and likewise for Left followed by Right.
C37_GoUntilCountRoundTrip ==
    [][ /\ last_op = "go_until_count" /\ last_result = "ok"
        /\ last_arg.count >= 1
        /\ last_arg.dir \in {Left, Right}
        /\ get(raster, last_arg.from) # NoPixel
        /\ predicate(last_arg.pred, get(raster, last_arg.from))
        /\ last_op' = "go_until_count"
        /\ last_arg'.from = browser
        /\ last_arg'.dir = Opposite(last_arg.dir)
        /\ last_arg'.count = last_arg.count
        /\ last_arg'.pred = last_arg.pred
        => last_result' = "ok" /\ browser' = last_arg.from
      ]_vars

\* the way back of a round trip over two matching cells with a cell that does
\* not match between them
C37_Witness ==
    /\ last_op = "go_until_count"
    /\ last_result = "ok"
    /\ last_arg.count = 2
    /\ last_arg.dir = Left
    /\ Linear(last_arg.from) - Linear(browser) = 3
    /\ predicate(last_arg.pred, get(raster, browser))
    /\ go_until_count(raster, browser, Right, 2, last_arg.pred) = Moved(last_arg.from)

\* C34: go_while, go_while_or_count and go_until_count terminate for every
\* grid, start position, count and predicate, including a predicate that is
\* always true and a grid with unpopulated cells: the scan stops inside the
\* grid or returns the out-of-bounds error once the grid edge is reached,
\* after at most rows x cols steps.
C34_ScanTerminates ==
    /\ [](frame # NoFrame => frame.steps < raster.max[1] * raster.max[2])
    /\ [](frame = NoFrame /\ last_op \in Scans =>
             /\ last_arg.steps <= raster.max[1] * raster.max[2]
             /\ last_result = "ok" => InGrid(browser)
             /\ last_result # "ok" => last_result \in {ErrPastBounds, ErrGoWhileDir})
    /\ (frame # NoFrame ~> frame = NoFrame)

\* a scan with the always-true predicate over a grid with cells never pushed
\* has run off the grid after as many iterations as the grid has cells
C34_Witness ==
    /\ frame = NoFrame
    /\ last_op = "go_while"
    /\ last_arg.pred = "always"
    /\ last_result = ErrPastBounds
    /\ last_arg.steps = raster.max[1] * raster.max[2]
    /\ raster.max[1] * raster.max[2] > 1
    /\ \E q \in GridCells : get(raster, q) = NoPixel

RECURSIVE Concat(_)
Concat(slices) == IF slices = <<>> THEN <<>> ELSE Head(slices) \o Concat(Tail(slices))

\* C38: for every string s and every width n >= 1, split_every_n(s, n)
\* returns slices whose concatenation in order is s, in which every slice
\* except the last has length exactly n and the last has length between 1 and
\* n; the empty string yields no slices.  Lengths are taken as str::len
\* takes them, in bytes.
C38_SplitEveryN ==
    frame = NoFrame /\ last_op = "split_every_n" =>
        /\ last_arg.string = <<>> => last_result = <<>>
        /\ last_arg.n >= 1 =>
              /\ ~panicked
              /\ Concat(last_result) = last_arg.string
              /\ \A i \in 1..(Len(last_result) - 1) :
                    str_len(last_result[i]) = last_arg.n
              /\ last_result # <<>> =>
                    /\ 1 <= str_len(last_result[Len(last_result)])
                    /\ str_len(last_result[Len(last_result)]) <= last_arg.n

\* C39: split_every_n terminates for every string and every width n,
\* including n = 0 with a non-empty string: its loop runs at most as many
\* iterations as the string has bytes, and every call returns.
C39_SplitTerminates ==
    /\ [](frame.fn = "split_every_n" => Len(frame.slices) <= str_len(frame.string))
    /\ (frame.fn = "split_every_n" ~> frame = NoFrame)

\* C35: after any sequence of public Tree operations the identities that
\* activate accepts (the keys of id_table) are exactly the identities of the
\* nodes reachable from the root, and each of them leads to the node that
\* carries it: every reachable node, the descendants of an inserted subtree
\* included, is registered under its current identity and no identity of an
\* unreachable node is registered.
RegisteredIds == {id \in DOMAIN id_table : activate(id_table, active, id).result = "ok"}

ReachableIds == {heap[n].id : n \in TreeNodes(heap, root)}

C35_TableIsReachableIds ==
    ~panicked =>
        /\ RegisteredIds = ReachableIds
        /\ \A n \in TreeNodes(heap, root) :
              activate(id_table, active, heap[n].id).active = n

\* C36: a successful indent or unindent changes no node identity and no node
\* content, leaves the active node and the identity table as they were,
\* leaves the moved node's own child list as it was, and changes the child
\* list of no node other than the moved node's old parent and new parent.
C36_IndentUnindentFrame ==
    [][(Called("indent", "ok") \/ Called("unindent", "ok")) =>
          (/\ DOMAIN heap' = DOMAIN heap
           /\ \A n \in DOMAIN heap :
                 /\ heap'[n].id = heap[n].id
                 /\ heap'[n].content = heap[n].content
           /\ active' = active
           /\ id_table' = id_table
           /\ heap'[active].children = heap[active].children
           /\ \A n \in DOMAIN heap \ {heap[active].parent, heap'[active].parent} :
                 heap'[n].children = heap[n].children)]_vars

\* a written bullet with a child of its own has just been moved, while a
\* third written bullet stood by
C36_Witness ==
    /\ last_op \in {"indent", "unindent"} /\ last_result = "ok"
    /\ heap[active].content # <<>>
    /\ heap[active].children # <<>>
    /\ \E n \in TreeNodes(heap, root) \ {root, active, heap[active].parent} :
          heap[n].content # <<>>

\* C31: whenever the editor is in command mode, after any sequence of key
\* presses from Editor::new, the grid cell under the cursor is browsable (a
\* Text or a Placeholder cell, never Empty, Filler or Bullet), so that is what
\* a command handler is passed.
C31_CommandCursorBrowsable ==
    CommandMode => is_browsable(get(raster, cursor.pos))

\* C40: Backspace in insert mode removes a bullet only when the active
\* bullet's content is empty: whenever the content is not empty, at any
\* cursor offset from 0 to the content's length, a Backspace that is handled
\* removes exactly one character and leaves the tree's structure (the node
\* set, every child list, the bullet's children) and the active bullet as
\* they were.
C40_BackspaceKeepsBullet ==
    [][(/\ InsertMode
        /\ heap[active].content # <<>>
        /\ cursor.offset <= Len(heap[active].content)
        /\ (Called("KEY_BACKSPACE", "ok") \/ Called("^?", "ok")))
       => (/\ active' = active
           /\ Len(heap'[active].content) = Len(heap[active].content) - 1
           /\ DOMAIN heap' = DOMAIN heap
           /\ \A n \in DOMAIN heap :
                 /\ heap'[n].id = heap[n].id
                 /\ heap'[n].parent = heap[n].parent
                 /\ heap'[n].children = heap[n].children
                 /\ n # active => heap'[n].content = heap[n].content)]_vars

====
